---- MODULE Spec2Model ----
(***************************************************************************)
(* Model of src/pipelines/text_pipeline.py: the text knowledge-graph       *)
(* extraction core (ChunkGrouper, EntityExtractor, EntityDeduplicator,     *)
(* OntologyAligner, KnowledgeGraphBuilder, TextKnowledgeGraphPipeline).    *)
(*                                                                         *)
(* Four specifications share the variables:                                *)
(*   SpecGroup     ChunkGrouper.group_by_dynamic_size, one loop turn a step *)
(*   SpecDedup     deduplicate_entities, one candidate a step, and a       *)
(*                 second call on its result                               *)
(*   SpecGraph     steps 5 to 9 of process_document on bounded entity and  *)
(*                 relation lists                                          *)
(*   SpecPipeline  process_document, one loop turn, worker step or         *)
(*                 collector step a step                                   *)
(* Python strings are TLA+ strings; a dict is a sequence of <<key, value>> *)
(* records in insertion order; None is the model value NONE.               *)
(***************************************************************************)
EXTENDS Integers, Sequences, FiniteSets, TLC

VARIABLES
    pc,                         \* position in the operation being run
    \* ---- ChunkGrouper.group_by_dynamic_size
    text_items,                 \* its argument
    chunk_size,                 \* ChunkGrouper.chunk_size
    sorted_items,               \* sorted_items
    item_idx,                   \* number of sorted_items the for loop has taken
    chunks,                     \* chunks
    current_chunk_items,        \* current_chunk_items
    current_chunk_text_length,  \* current_chunk_text_length
    current_chunk_pages,        \* current_chunk_pages
    \* ---- EntityDeduplicator.deduplicate_entities
    all_entities,               \* its argument (process_document: all_entities)
    similarity_threshold,       \* EntityDeduplicator.similarity_threshold, in hundredths
    dedup_order,                \* the entities in the order the two for loops take them
    dedup_idx,                  \* number of entities of dedup_order taken
    deduplicated_entities,      \* deduplicated (the returned dict)
    owner,                      \* history: input id -> id of the entity it went into
    rededuplicated,             \* deduplicate_entities(list(deduplicated.values()))
    \* ---- EntityExtractor.extract_from_chunks
    api_key,                    \* os.getenv("DASHSCOPE_API_KEY") (NONE when not set)
    hung,                       \* the tasks whose capability call never returns
    parallel,                   \* TextKnowledgeGraphPipeline.parallel
    max_workers,                \* EntityExtractor.max_workers
    prompt_ok,                  \* whether building the prompt succeeds (lines 419-422)
    futures,                    \* per chunk: the state of its task and what it returned
    completed,                  \* history: the chunk indices in the order their tasks ended
    results,                    \* results (the slots, or the list in sequential mode)
    slot_writes,                \* history: how often each slot of results was assigned
    collect_idx,                \* number of chunks (futures) the calling thread has taken
    chunk_results,              \* what extract_from_chunks returned, <<>> before
    \* ---- process_document, steps 4-9
    all_relations,              \* all_relations
    normalized_relations,       \* normalized_relations
    aligned_entities,           \* aligned_entities
    aligned_relations,          \* aligned_relations
    graph,                      \* the KnowledgeGraph returned, NoneObject before
    build_call                  \* the arguments of a call of KnowledgeGraphBuilder.build

grouper_vars == <<text_items, chunk_size, sorted_items, item_idx, chunks,
                  current_chunk_items, current_chunk_text_length, current_chunk_pages>>

dedup_vars == <<all_entities, similarity_threshold, dedup_order, dedup_idx,
                deduplicated_entities, owner, rededuplicated>>

extract_vars == <<api_key, hung, parallel, max_workers, prompt_ok, futures, completed, results,
                  slot_writes, collect_idx, chunk_results>>

graph_vars == <<all_relations, normalized_relations, aligned_entities, aligned_relations,
                graph, build_call>>

vars == <<pc, grouper_vars, dedup_vars, extract_vars, graph_vars>>

NONE == "<None>"

\* None where an object (a result, a graph) is expected
NoneObject == [is_none |-> TRUE]

(***************************************************************************)
(* Bounds of the model                                                     *)
(***************************************************************************)
MaxItems == 3

(***************************************************************************)
(* Generic helpers (Python built-ins)                                      *)
(***************************************************************************)
Range(s) == {s[i] : i \in 1..Len(s)}

Max2(a, b) == IF a >= b THEN a ELSE b

RECURSIVE SeqsUpTo(_, _)
\* all sequences over S of length 0..n
SeqsUpTo(S, n) ==
    IF n = 0 THEN {<<>>}
    ELSE LET shorter == SeqsUpTo(S, n - 1)
         IN shorter \cup {Append(s, x) : s \in {t \in shorter : Len(t) = n - 1}, x \in S}

RECURSIVE Concat(_)
\* concatenation of a sequence of sequences
Concat(ss) == IF ss = <<>> THEN <<>> ELSE Head(ss) \o Concat(Tail(ss))

RECURSIVE JoinNewline(_)
\* '\n'.join(texts)
JoinNewline(texts) ==
    IF texts = <<>> THEN ""
    ELSE IF Len(texts) = 1 THEN texts[1]
    ELSE texts[1] \o "\n" \o JoinNewline(Tail(texts))

RECURSIVE SortedInts(_)
\* sorted(set_of_ints)
SortedInts(S) ==
    IF S = {} THEN <<>>
    ELSE LET m == CHOOSE x \in S : \A y \in S : x <= y
         IN <<m>> \o SortedInts(S \ {m})

(***************************************************************************)
(* ChunkGrouper                                                            *)
(***************************************************************************)
\* texts a fragment may carry ('text' absent reads as '')
Texts == {"", "ab", "abcd"}
PageIdxs == {0, 1}
BBoxYs == {0, 1}
ChunkSizes == {3, 5}

\* a text item; id is its position in the argument list (identity of the dict)
ItemOf(i, t, p, y) == [id |-> i, text |-> t, page_idx |-> p, y |-> y]

ItemLists ==
    {s \in SeqsUpTo([text : Texts, page_idx : PageIdxs, y : BBoxYs], MaxItems) : TRUE}

WithIds(s) == [i \in 1..Len(s) |-> ItemOf(i, s[i].text, s[i].page_idx, s[i].y)]

\* the sort key: (x.get('page_idx', 0), x.get('bbox', [0])[1] if x.get('bbox') else 0)
SortKeyLess(a, b) ==
    \/ a.page_idx < b.page_idx
    \/ a.page_idx = b.page_idx /\ a.y < b.y

RECURSIVE InsertSorted(_, _)
\* insert x after every element that is not greater than it (stable)
InsertSorted(s, x) ==
    IF s = <<>> THEN <<x>>
    ELSE IF SortKeyLess(x, Head(s)) THEN <<x>> \o s
    ELSE <<Head(s)>> \o InsertSorted(Tail(s), x)

\* mutant of SortedByKey: the items are grouped in the order given, unsorted
SortedByKey_Unsorted(s) == s

RECURSIVE SortedByKey(_)
\* sorted(text_items, key=...): Python's sort is stable
SortedByKey(s) ==
    IF s = <<>> THEN <<>>
    ELSE InsertSorted(SortedByKey(SubSeq(s, 1, Len(s) - 1)), s[Len(s)])

\* the dict appended to chunks
MakeChunk(items, pages, length) ==
    [items  |-> items,
     text   |-> JoinNewline([i \in 1..Len(items) |-> items[i].text]),
     pages  |-> SortedInts(pages),
     length |-> length]

\* the guard of line 350
ExceedsChunkSize(cur_len, item_length, size) ==
    cur_len > 0 /\ cur_len + item_length > size

GrouperIdle ==
    /\ text_items = <<>>
    /\ chunk_size = 0
    /\ sorted_items = <<>>
    /\ item_idx = 0
    /\ chunks = <<>>
    /\ current_chunk_items = <<>>
    /\ current_chunk_text_length = 0
    /\ current_chunk_pages = {}

\* line 337-342
GroupSort ==
    /\ pc = "group_sort"
    /\ sorted_items' = SortedByKey(text_items)
    /\ pc' = "group_loop"
    /\ UNCHANGED <<text_items, chunk_size, item_idx, chunks, current_chunk_items,
                   current_chunk_text_length, current_chunk_pages>>
    /\ UNCHANGED <<dedup_vars, extract_vars, graph_vars>>

\* one turn of the for loop, lines 344-369
GroupStep ==
    /\ pc = "group_loop"
    /\ item_idx < Len(sorted_items)
    /\ LET item == sorted_items[item_idx + 1]
           item_length == Len(item.text)
           page_idx == item.page_idx
       IN \/ /\ ExceedsChunkSize(current_chunk_text_length, item_length, chunk_size)
             /\ chunks' = IF current_chunk_items # <<>>
                          THEN Append(chunks, MakeChunk(current_chunk_items,
                                                        current_chunk_pages,
                                                        current_chunk_text_length))
                          ELSE chunks
             /\ current_chunk_items' = <<item>>
             /\ current_chunk_text_length' = item_length
             /\ current_chunk_pages' = {page_idx}
          \/ /\ ~ExceedsChunkSize(current_chunk_text_length, item_length, chunk_size)
             /\ current_chunk_items' = Append(current_chunk_items, item)
             /\ current_chunk_text_length' = current_chunk_text_length + item_length
             /\ current_chunk_pages' = current_chunk_pages \cup {page_idx}
             /\ UNCHANGED chunks
    /\ item_idx' = item_idx + 1
    /\ UNCHANGED <<pc, text_items, chunk_size, sorted_items>>
    /\ UNCHANGED <<dedup_vars, extract_vars, graph_vars>>

\* the last chunk and the return, lines 371-384
GroupFinish ==
    /\ pc = "group_loop"
    /\ item_idx = Len(sorted_items)
    /\ chunks' = IF current_chunk_items # <<>>
                 THEN Append(chunks, MakeChunk(current_chunk_items,
                                               current_chunk_pages,
                                               current_chunk_text_length))
                 ELSE chunks
    /\ pc' = "group_done"
    /\ UNCHANGED <<text_items, chunk_size, sorted_items, item_idx, current_chunk_items,
                   current_chunk_text_length, current_chunk_pages>>
    /\ UNCHANGED <<dedup_vars, extract_vars, graph_vars>>

(***************************************************************************)
(* Strings: str.lower(), str.strip(), the "in" test, difflib               *)
(***************************************************************************)
LowerChar(c) ==
    CASE c = "A" -> "a" [] c = "B" -> "b" [] c = "C" -> "c" [] c = "D" -> "d"
      [] c = "E" -> "e" [] c = "F" -> "f" [] c = "G" -> "g" [] c = "H" -> "h"
      [] c = "I" -> "i" [] c = "J" -> "j" [] c = "K" -> "k" [] c = "L" -> "l"
      [] c = "M" -> "m" [] c = "N" -> "n" [] c = "O" -> "o" [] c = "P" -> "p"
      [] c = "Q" -> "q" [] c = "R" -> "r" [] c = "S" -> "s" [] c = "T" -> "t"
      [] c = "U" -> "u" [] c = "V" -> "v" [] c = "W" -> "w" [] c = "X" -> "x"
      [] c = "Y" -> "y" [] c = "Z" -> "z" [] OTHER -> c

RECURSIVE Lower(_)
\* str.lower() on ASCII text
Lower(s) ==
    IF Len(s) = 0 THEN ""
    ELSE LowerChar(SubSeq(s, 1, 1)) \o Lower(SubSeq(s, 2, Len(s)))

IsSpace(c) == c \in {" ", "\n", "\t", "\r"}

RECURSIVE LStrip(_)
LStrip(s) ==
    IF Len(s) > 0 /\ IsSpace(SubSeq(s, 1, 1)) THEN LStrip(SubSeq(s, 2, Len(s))) ELSE s

RECURSIVE RStrip(_)
RStrip(s) ==
    IF Len(s) > 0 /\ IsSpace(SubSeq(s, Len(s), Len(s)))
    THEN RStrip(SubSeq(s, 1, Len(s) - 1)) ELSE s

\* str.strip()
Strip(s) == RStrip(LStrip(s))

\* Python's "p in s" on strings
IsSubstring(p, s) ==
    \E i \in 1..(Len(s) - Len(p) + 1) : SubSeq(s, i, i + Len(p) - 1) = p

RECURSIVE CommonPrefixLen(_, _)
CommonPrefixLen(a, b) ==
    IF Len(a) = 0 \/ Len(b) = 0 \/ SubSeq(a, 1, 1) # SubSeq(b, 1, 1) THEN 0
    ELSE 1 + CommonPrefixLen(SubSeq(a, 2, Len(a)), SubSeq(b, 2, Len(b)))

\* length of the block a[i..] = b[j..] (1-based starts)
BlockLen(a, b, i, j) == CommonPrefixLen(SubSeq(a, i, Len(a)), SubSeq(b, j, Len(b)))

\* SequenceMatcher.find_longest_match without junk: the longest block, of those
\* the one starting earliest in a, of those the one starting earliest in b
FindLongestMatch(a, b) ==
    IF Len(a) = 0 \/ Len(b) = 0 THEN [i |-> 1, j |-> 1, k |-> 0]
    ELSE LET starts == (1..Len(a)) \X (1..Len(b))
             best == CHOOSE p \in starts :
                        \A q \in starts :
                            LET kp == BlockLen(a, b, p[1], p[2])
                                kq == BlockLen(a, b, q[1], q[2])
                            IN \/ kp > kq
                               \/ kp = kq /\ p[1] < q[1]
                               \/ kp = kq /\ p[1] = q[1] /\ p[2] <= q[2]
         IN [i |-> best[1], j |-> best[2], k |-> BlockLen(a, b, best[1], best[2])]

RECURSIVE MatchingChars(_, _)
\* sum of the sizes of SequenceMatcher.get_matching_blocks()
MatchingChars(a, b) ==
    LET m == FindLongestMatch(a, b)
    IN IF m.k = 0 THEN 0
       ELSE m.k + MatchingChars(SubSeq(a, 1, m.i - 1), SubSeq(b, 1, m.j - 1))
                + MatchingChars(SubSeq(a, m.i + m.k, Len(a)), SubSeq(b, m.j + m.k, Len(b)))

\* calculate_similarity: SequenceMatcher(None, str1.lower(), str2.lower()).ratio(),
\* kept as the fraction num/den = 2*M/T (1/1 when both strings are empty)
calculate_similarity(str1, str2) ==
    LET a == Lower(str1)
        b == Lower(str2)
        T == Len(a) + Len(b)
    IN IF T = 0 THEN [num |-> 1, den |-> 1]
       ELSE [num |-> 2 * MatchingChars(a, b), den |-> T]

\* mutant of SimAtLeast: a similarity equal to the threshold does not reach it
SimAtLeast_Strict(sim, thr) == 100 * sim.num > thr * sim.den

\* similarity >= threshold, the threshold in hundredths
SimAtLeast(sim, thr) == 100 * sim.num >= thr * sim.den

\* sim1 > sim2
SimGreater(sim1, sim2) == sim1.num * sim2.den > sim2.num * sim1.den

(***************************************************************************)
(* dict (insertion-ordered): a sequence of [key, value] records            *)
(***************************************************************************)
MapKeys(m) == {m[i].key : i \in 1..Len(m)}

MapKeySeq(m) == [i \in 1..Len(m) |-> m[i].key]

MapValues(m) == [i \in 1..Len(m) |-> m[i].value]

\* position of key k, 0 when absent
MapIndex(m, k) ==
    IF k \in MapKeys(m) THEN CHOOSE i \in 1..Len(m) : m[i].key = k ELSE 0

\* m[k] = v: a present key keeps its position, a new key goes last
MapPut(m, k, v) ==
    IF MapIndex(m, k) > 0
    THEN [m EXCEPT ![MapIndex(m, k)] = [key |-> k, value |-> v]]
    ELSE Append(m, [key |-> k, value |-> v])

\* bool(x) of an Optional[str]
Truthy(x) == x # NONE /\ x # ""

(***************************************************************************)
(* EntityDeduplicator                                                      *)
(***************************************************************************)
MaxEntities == 3

\* similarity_threshold values, in hundredths (0.85 is the default)
DefaultThreshold == 85
Thresholds == {50, DefaultThreshold}

Attr(n, v) == [name |-> n, value |-> v]

\* Entity(name, type, description, attributes), before it gets its identity
NameTypes ==
    { <<"aba", "person">>, <<"aba", "company">>, <<"bca", "company">>,
      <<"Aba", "company">> }

Details ==
    { [description |-> NONE, attributes |-> <<Attr("industry", "v1")>>],
      [description |-> "dd",
       attributes |-> <<Attr("industry", "v2"), Attr("industry", "v3")>>],
      [description |-> "d", attributes |-> <<Attr("stage", "s1"), Attr("stage", "s2")>>] }

EntityPool ==
    { [name |-> nt[1], type |-> nt[2], description |-> d.description,
       attributes |-> d.attributes] : nt \in NameTypes, d \in Details }

\* id: the position in the list handed to deduplicate_entities (the object's identity)
WithEntityIds(s) ==
    [i \in 1..Len(s) |->
        [id |-> i, name |-> s[i].name, type |-> s[i].type,
         description |-> s[i].description, attributes |-> s[i].attributes]]

RECURSIVE TypeOrder(_)
\* the keys of entity_groups, in order of first appearance (lines 539-543)
TypeOrder(entities) ==
    IF entities = <<>> THEN <<>>
    ELSE LET front == TypeOrder(SubSeq(entities, 1, Len(entities) - 1))
             t == entities[Len(entities)].type
         IN IF t \in Range(front) THEN front ELSE Append(front, t)

\* the entities in the order lines 546-549 visit them
GroupedOrder(entities) ==
    LET types == TypeOrder(entities)
    IN Concat([g \in 1..Len(types) |->
                  SelectSeq(entities, LAMBDA e : e.type = types[g])])

\* lines 552-562: position of the first canonical entity of the same type whose key
\* is similar enough, 0 when there is none
FindMatch(deduplicated, entity, thr) ==
    LET hits == {i \in 1..Len(deduplicated) :
                    /\ deduplicated[i].value.type = entity.type
                    /\ SimAtLeast(calculate_similarity(entity.name, deduplicated[i].key),
                                  thr)}
    IN IF hits = {} THEN 0 ELSE CHOOSE i \in hits : \A j \in hits : i <= j

\* mutant of merge_entities: the candidate's description always replaces the target's
merge_entities_TakeDescription(target, source) ==
    [target EXCEPT !.description = source.description,
                   !.attributes =
                       @ \o SelectSeq(source.attributes,
                                      LAMBDA a : a.name \notin
                                          {target.attributes[i].name :
                                               i \in 1..Len(target.attributes)})]

\* mutant of merge_entities: the candidate's attribute list replaces the target's
merge_entities_ReplaceAttributes(target, source) ==
    [target EXCEPT !.attributes = source.attributes]

\* _merge_entities: the target after the merge (the target is changed in place)
merge_entities(target, source) ==
    LET existing_attr_names == {target.attributes[i].name : i \in 1..Len(target.attributes)}
        description ==
            IF /\ Truthy(source.description)
               /\ \/ ~Truthy(target.description)
                  \/ Len(source.description) > Len(target.description)
            THEN source.description
            ELSE target.description
        attributes ==
            target.attributes \o
            SelectSeq(source.attributes, LAMBDA a : a.name \notin existing_attr_names)
    IN [target EXCEPT !.description = description, !.attributes = attributes]

\* one turn of the inner loop, lines 549-566
DedupCandidate(deduplicated, entity, thr) ==
    LET i == FindMatch(deduplicated, entity, thr)
    IN IF i > 0
       THEN [deduplicated EXCEPT ![i].value = merge_entities(@, entity)]
       ELSE MapPut(deduplicated, entity.name, entity)

RECURSIVE DedupFold(_, _, _)
DedupFold(deduplicated, order, thr) ==
    IF order = <<>> THEN deduplicated
    ELSE DedupFold(DedupCandidate(deduplicated, Head(order), thr), Tail(order), thr)

\* deduplicate_entities
deduplicate_entities(entities, thr) == DedupFold(<<>>, GroupedOrder(entities), thr)

DedupIdle ==
    /\ all_entities = <<>>
    /\ similarity_threshold = 0
    /\ dedup_order = <<>>
    /\ dedup_idx = 0
    /\ deduplicated_entities = <<>>
    /\ owner = <<>>
    /\ rededuplicated = <<>>

\* lines 538-543
DedupGroup ==
    /\ pc = "dedup_group"
    /\ dedup_order' = GroupedOrder(all_entities)
    /\ pc' = "dedup_loop"
    /\ UNCHANGED <<all_entities, similarity_threshold, dedup_idx,
                   deduplicated_entities, owner, rededuplicated>>
    /\ UNCHANGED <<grouper_vars, extract_vars, graph_vars>>

\* one candidate, lines 549-566
DedupStep ==
    /\ pc = "dedup_loop"
    /\ dedup_idx < Len(dedup_order)
    /\ LET entity == dedup_order[dedup_idx + 1]
           i == FindMatch(deduplicated_entities, entity, similarity_threshold)
       IN \/ /\ i > 0
             /\ owner' = [owner EXCEPT ![entity.id] = deduplicated_entities[i].value.id]
          \/ /\ i = 0
             /\ owner' = [owner EXCEPT ![entity.id] = entity.id]
    /\ deduplicated_entities' =
           DedupCandidate(deduplicated_entities, dedup_order[dedup_idx + 1],
                          similarity_threshold)
    /\ dedup_idx' = dedup_idx + 1
    /\ UNCHANGED <<pc, all_entities, similarity_threshold, dedup_order, rededuplicated>>
    /\ UNCHANGED <<grouper_vars, extract_vars, graph_vars>>

\* line 568-569
DedupReturn ==
    /\ pc = "dedup_loop"
    /\ dedup_idx = Len(dedup_order)
    /\ pc' = "dedup_done"
    /\ UNCHANGED dedup_vars
    /\ UNCHANGED <<grouper_vars, extract_vars, graph_vars>>

\* a second call, on the values of the first call's result in dict order
DedupAgain ==
    /\ pc = "dedup_done"
    /\ rededuplicated' =
           deduplicate_entities(MapValues(deduplicated_entities), similarity_threshold)
    /\ pc' = "rededup_done"
    /\ UNCHANGED <<all_entities, similarity_threshold, dedup_order, dedup_idx,
                   deduplicated_entities, owner>>
    /\ UNCHANGED <<grouper_vars, extract_vars, graph_vars>>

(***************************************************************************)
(* EntityDeduplicator.normalize_relations                                  *)
(***************************************************************************)
RECURSIVE BestMatchFrom(_, _, _, _, _, _)
\* the for loop of lines 646-650 from key number i on; best_similarity starts at 0
BestMatchFrom(keys, i, entity_name, thr, best_match, best_similarity) ==
    IF i > Len(keys) THEN best_match
    ELSE LET similarity == calculate_similarity(entity_name, keys[i])
         IN IF SimAtLeast(similarity, thr) /\ SimGreater(similarity, best_similarity)
            THEN BestMatchFrom(keys, i + 1, entity_name, thr, keys[i], similarity)
            ELSE BestMatchFrom(keys, i + 1, entity_name, thr, best_match, best_similarity)

\* mutant of find_canonical_name: a name that is no key is returned as it is
find_canonical_name_Unchecked(entity_name, entity_map, thr) == entity_name

\* _find_canonical_name: a key of entity_map, or NONE
find_canonical_name(entity_name, entity_map, thr) ==
    IF entity_name \in MapKeys(entity_map) THEN entity_name
    ELSE BestMatchFrom(MapKeySeq(entity_map), 1, entity_name, thr, NONE,
                       [num |-> 0, den |-> 1])

\* mutant of BothResolved: one resolved endpoint is enough
BothResolved_Either(source_canonical, target_canonical) ==
    Truthy(source_canonical) \/ Truthy(target_canonical)

\* the test of line 609
BothResolved(source_canonical, target_canonical) ==
    Truthy(source_canonical) /\ Truthy(target_canonical)

RECURSIVE normalize_relations(_, _, _)
\* normalize_relations, lines 602-625
normalize_relations(relations, entity_map, thr) ==
    IF relations = <<>> THEN <<>>
    ELSE LET relation == Head(relations)
             source_canonical == find_canonical_name(relation.source_entity, entity_map, thr)
             target_canonical == find_canonical_name(relation.target_entity, entity_map, thr)
             rest == normalize_relations(Tail(relations), entity_map, thr)
         IN IF BothResolved(source_canonical, target_canonical)
            THEN <<[relation EXCEPT !.source_entity = source_canonical,
                                    !.target_entity = target_canonical]>> \o rest
            ELSE rest

(***************************************************************************)
(* OntologyAligner                                                         *)
(***************************************************************************)
\* CoreEntityType
COMPANY == "Company"
PERSON == "Person"
TECHNOLOGY == "Technology"
PRODUCT == "Product"
TAG_CONCEPT == "TagConcept"
EVENT == "Event"
SIGNAL == "Signal"
CORE_OTHER == "Other"

CoreEntityTypes == {COMPANY, PERSON, TECHNOLOGY, PRODUCT, TAG_CONCEPT, EVENT, SIGNAL, CORE_OTHER}

\* CoreRelationType
FOUNDED_BY == "founded_by"
INVESTED_BY == "invested_by"
USES_TECHNOLOGY == "uses_technology"
IN_SEGMENT == "in_segment"
COMPETES_WITH == "competes_with"
PARTNERS_WITH == "partners_with"
WORKS_AT == "works_at"
RESEARCHES == "researches"
EDUCATED_AT == "educated_at"
PART_OF == "part_of"
RELATED_TO == "related_to"
APPLIED_IN == "applied_in"
INVOLVES == "involves"
TRIGGERED_BY == "triggered_by"
LOCATED_IN == "located_in"
REL_OTHER == "other"

CoreRelationTypes ==
    <<FOUNDED_BY, INVESTED_BY, USES_TECHNOLOGY, IN_SEGMENT, COMPETES_WITH, PARTNERS_WITH,
      WORKS_AT, RESEARCHES, EDUCATED_AT, PART_OF, RELATED_TO, APPLIED_IN, INVOLVES,
      TRIGGERED_BY, LOCATED_IN, REL_OTHER>>

\* the dict literals, in insertion order: a key written twice keeps its first place
\* and takes its last value
ENTITY_TYPE_MAPPING ==
    << <<"company", COMPANY>>, <<"organization", COMPANY>>, <<"startup", COMPANY>>,
       <<"firm", COMPANY>>, <<"corporation", COMPANY>>, <<"enterprise", COMPANY>>,
       <<"institution", COMPANY>>, <<"investor", COMPANY>>,
       <<"investment_firm", COMPANY>>, <<"fund", COMPANY>>, <<"university", COMPANY>>,
       <<"research_lab", COMPANY>>, <<"person", PERSON>>, <<"founder", PERSON>>,
       <<"ceo", PERSON>>, <<"executive", PERSON>>, <<"researcher", PERSON>>,
       <<"scientist", PERSON>>, <<"engineer", PERSON>>, <<"expert", PERSON>>,
       <<"author", PERSON>>, <<"team_member", PERSON>>, <<"technology", TECHNOLOGY>>,
       <<"technique", TECHNOLOGY>>, <<"algorithm", TECHNOLOGY>>,
       <<"method", TECHNOLOGY>>, <<"framework", TECHNOLOGY>>, <<"platform", PRODUCT>>,
       <<"system", PRODUCT>>, <<"model", TECHNOLOGY>>, <<"tool", PRODUCT>>,
       <<"software", PRODUCT>>, <<"hardware", TECHNOLOGY>>, <<"device", TECHNOLOGY>>,
       <<"material", TECHNOLOGY>>, <<"component", TECHNOLOGY>>, <<"product", PRODUCT>>,
       <<"service", PRODUCT>>, <<"application", PRODUCT>>, <<"app", PRODUCT>>,
       <<"solution", PRODUCT>>, <<"industry", TAG_CONCEPT>>, <<"domain", TAG_CONCEPT>>,
       <<"field", TAG_CONCEPT>>, <<"sector", TAG_CONCEPT>>,
       <<"category", TAG_CONCEPT>>, <<"tag", TAG_CONCEPT>>,
       <<"tag_concept", TAG_CONCEPT>>, <<"concept", TAG_CONCEPT>>,
       <<"topic", TAG_CONCEPT>>, <<"area", TAG_CONCEPT>>, <<"market", TAG_CONCEPT>>,
       <<"segment", TAG_CONCEPT>>, <<"industry_segment", TAG_CONCEPT>>,
       <<"application_scenario", TAG_CONCEPT>>, <<"event", EVENT>>, <<"news", EVENT>>,
       <<"announcement", EVENT>>, <<"financing", EVENT>>, <<"investment", EVENT>>,
       <<"acquisition", EVENT>>, <<"merger", EVENT>>, <<"partnership", EVENT>>,
       <<"collaboration", EVENT>>, <<"launch", EVENT>>, <<"release", EVENT>>,
       <<"signal", SIGNAL>>, <<"indicator", SIGNAL>>, <<"metric", SIGNAL>>,
       <<"trend", SIGNAL>>, <<"patent", CORE_OTHER>>, <<"paper", CORE_OTHER>>,
       <<"report", CORE_OTHER>>, <<"dataset", CORE_OTHER>>, <<"standard", CORE_OTHER>>,
       <<"location", CORE_OTHER>> >>

RELATION_TYPE_MAPPING ==
    << <<"founded_by", FOUNDED_BY>>, <<"created_by", FOUNDED_BY>>,
       <<"established_by", FOUNDED_BY>>, <<"led_by", FOUNDED_BY>>,
       <<"invested_by", INVESTED_BY>>, <<"funded_by", INVESTED_BY>>,
       <<"backed_by", INVESTED_BY>>, <<"financed_by", INVESTED_BY>>,
       <<"invested_in", INVESTED_BY>>, <<"works_at", WORKS_AT>>,
       <<"employed_by", WORKS_AT>>, <<"member_of", WORKS_AT>>,
       <<"serves_at", WORKS_AT>>, <<"uses_technology", USES_TECHNOLOGY>>,
       <<"uses", USES_TECHNOLOGY>>, <<"adopts", USES_TECHNOLOGY>>,
       <<"implements", USES_TECHNOLOGY>>, <<"applies", USES_TECHNOLOGY>>,
       <<"leverages", USES_TECHNOLOGY>>, <<"in_segment", IN_SEGMENT>>,
       <<"in_industry", IN_SEGMENT>>, <<"in_field", IN_SEGMENT>>,
       <<"operates_in", IN_SEGMENT>>, <<"focuses_on", IN_SEGMENT>>,
       <<"targets", IN_SEGMENT>>, <<"competes_with", COMPETES_WITH>>,
       <<"rival_of", COMPETES_WITH>>, <<"competitor_of", COMPETES_WITH>>,
       <<"partners_with", PARTNERS_WITH>>, <<"collaborates_with", PARTNERS_WITH>>,
       <<"cooperates_with", PARTNERS_WITH>>, <<"works_with", PARTNERS_WITH>>,
       <<"researches", RESEARCHES>>, <<"studies", RESEARCHES>>,
       <<"investigates", RESEARCHES>>, <<"develops", RESEARCHES>>,
       <<"educated_at", EDUCATED_AT>>, <<"studied_at", EDUCATED_AT>>,
       <<"graduated_from", EDUCATED_AT>>, <<"part_of", PART_OF>>,
       <<"subset_of", PART_OF>>, <<"component_of", PART_OF>>,
       <<"belongs_to", PART_OF>>, <<"related_to", RELATED_TO>>,
       <<"associated_with", RELATED_TO>>, <<"connected_to", RELATED_TO>>,
       <<"applied_in", APPLIED_IN>>, <<"used_in", APPLIED_IN>>,
       <<"involves", INVOLVES>>, <<"includes", INVOLVES>>, <<"affects", INVOLVES>>,
       <<"located_in", LOCATED_IN>>, <<"based_in", LOCATED_IN>>,
       <<"headquartered_in", LOCATED_IN>> >>

\* first pattern, in dict order, that is in the raw string or holds it; 0 when none
FirstPatternMatch(mapping, raw) ==
    LET hits == {i \in 1..Len(mapping) :
                    IsSubstring(mapping[i][1], raw) \/ IsSubstring(raw, mapping[i][1])}
    IN IF hits = {} THEN 0 ELSE CHOOSE i \in hits : \A j \in hits : i <= j

\* mutant of MapType: the pattern loop runs before the dict lookup
MapType_PatternFirst(mapping, raw, fallback) ==
    LET exact == {i \in 1..Len(mapping) : mapping[i][1] = raw}
        fuzzy == FirstPatternMatch(mapping, raw)
    IN IF fuzzy > 0 THEN mapping[fuzzy][2]
       ELSE IF exact # {} THEN mapping[CHOOSE i \in exact : TRUE][2]
       ELSE fallback

\* dict lookup, then the first pattern match, then the fallback
MapType(mapping, raw, fallback) ==
    LET exact == {i \in 1..Len(mapping) : mapping[i][1] = raw}
        fuzzy == FirstPatternMatch(mapping, raw)
    IN IF exact # {} THEN mapping[CHOOSE i \in exact : TRUE][2]
       ELSE IF fuzzy > 0 THEN mapping[fuzzy][2]
       ELSE fallback

\* _map_entity_type
map_entity_type(raw_type) == MapType(ENTITY_TYPE_MAPPING, Strip(Lower(raw_type)), CORE_OTHER)

RECURSIVE ReplaceSpaces(_)
\* str.replace(' ', '_')
ReplaceSpaces(s) ==
    IF Len(s) = 0 THEN ""
    ELSE (IF SubSeq(s, 1, 1) = " " THEN "_" ELSE SubSeq(s, 1, 1))
         \o ReplaceSpaces(SubSeq(s, 2, Len(s)))

\* mutant of map_relation_type: a relation type that matches no key is passed on
map_relation_type_KeepRaw(raw_relation) ==
    MapType(RELATION_TYPE_MAPPING, ReplaceSpaces(Strip(Lower(raw_relation))),
            ReplaceSpaces(Strip(Lower(raw_relation))))

\* _map_relation_type
map_relation_type(raw_relation) ==
    MapType(RELATION_TYPE_MAPPING, ReplaceSpaces(Strip(Lower(raw_relation))), REL_OTHER)

\* attr_dict.get(name): the value of the last attribute of that name, or NONE
AttrGet(attributes, name) ==
    LET at == {i \in 1..Len(attributes) : attributes[i].name = name}
    IN IF at = {} THEN NONE ELSE attributes[CHOOSE i \in at : \A j \in at : j <= i].value

\* Python's "x or y" on Optional[str]
OrElse(x, y) == IF Truthy(x) THEN x ELSE y

\* [x] if x and isinstance(x, str) else []
ListOf(x) == IF Truthy(x) THEN <<x>> ELSE <<>>

\* the defaults of AlignedEntity's structured fields
DefaultFields ==
    [legal_name |-> NONE, founded_date |-> NONE, stage |-> NONE, industry |-> NONE,
     location |-> NONE, website |-> NONE, education |-> <<>>, positions |-> <<>>,
     expertise |-> <<>>, application_domain |-> NONE, technical_characteristics |-> <<>>,
     maturity_level |-> NONE, version |-> NONE, features |-> <<>>]

\* mutant of extract_structured_fields: every branch runs, whatever the core type
extract_structured_fields_AllBranches(entity, core_type) ==
    LET a == entity.attributes
    IN [legal_name |-> AttrGet(a, "legal_name"),
        founded_date |-> OrElse(AttrGet(a, "founded_date"), AttrGet(a, "founding_date")),
        stage |-> OrElse(AttrGet(a, "stage"), AttrGet(a, "funding_stage")),
        industry |-> AttrGet(a, "industry"),
        location |-> OrElse(AttrGet(a, "location"), AttrGet(a, "region")),
        website |-> AttrGet(a, "website"),
        education |-> ListOf(OrElse(AttrGet(a, "education"), AttrGet(a, "education_background"))),
        positions |-> ListOf(OrElse(AttrGet(a, "position"), AttrGet(a, "role"))),
        expertise |-> ListOf(AttrGet(a, "expertise")),
        application_domain |-> OrElse(AttrGet(a, "application_domain"), AttrGet(a, "domain")),
        technical_characteristics |->
            ListOf(OrElse(AttrGet(a, "technical_characteristics"), AttrGet(a, "characteristics"))),
        maturity_level |-> OrElse(AttrGet(a, "maturity_level"), AttrGet(a, "maturity")),
        version |-> AttrGet(a, "version"),
        features |-> ListOf(AttrGet(a, "features"))]

\* _extract_structured_fields, merged into the defaults as AlignedEntity(**fields) does
extract_structured_fields(entity, core_type) ==
    LET a == entity.attributes
    IN CASE core_type = COMPANY ->
              [DefaultFields EXCEPT
                  !.legal_name = AttrGet(a, "legal_name"),
                  !.founded_date = OrElse(AttrGet(a, "founded_date"), AttrGet(a, "founding_date")),
                  !.stage = OrElse(AttrGet(a, "stage"), AttrGet(a, "funding_stage")),
                  !.industry = AttrGet(a, "industry"),
                  !.location = OrElse(AttrGet(a, "location"), AttrGet(a, "region")),
                  !.website = AttrGet(a, "website")]
         [] core_type = PERSON ->
              [DefaultFields EXCEPT
                  !.education = ListOf(OrElse(AttrGet(a, "education"),
                                              AttrGet(a, "education_background"))),
                  !.positions = ListOf(OrElse(AttrGet(a, "position"), AttrGet(a, "role"))),
                  !.expertise = ListOf(AttrGet(a, "expertise"))]
         [] core_type = TECHNOLOGY ->
              [DefaultFields EXCEPT
                  !.application_domain = OrElse(AttrGet(a, "application_domain"),
                                                AttrGet(a, "domain")),
                  !.technical_characteristics =
                      ListOf(OrElse(AttrGet(a, "technical_characteristics"),
                                    AttrGet(a, "characteristics"))),
                  !.maturity_level = OrElse(AttrGet(a, "maturity_level"),
                                            AttrGet(a, "maturity"))]
         [] core_type = PRODUCT ->
              [DefaultFields EXCEPT
                  !.version = AttrGet(a, "version"),
                  !.features = ListOf(AttrGet(a, "features")),
                  !.application_domain = AttrGet(a, "application_domain")]
         [] OTHER -> DefaultFields

\* mutant of SkipsCoreType: nothing is skipped
SkipsCoreType_Never(core_type) == FALSE

\* the skip test of line 867
SkipsCoreType(core_type) == core_type = CORE_OTHER

RECURSIVE align_entities(_)
\* align_entities, lines 858-886
align_entities(entities) ==
    IF entities = <<>> THEN <<>>
    ELSE LET name == Head(entities).key
             entity == Head(entities).value
             core_type == map_entity_type(entity.type)
             rest == align_entities(Tail(entities))
         IN IF SkipsCoreType(core_type) THEN rest
            ELSE <<[key |-> name,
                    value |-> [name |-> name, core_type |-> core_type, alt_names |-> <<>>,
                               description |-> entity.description,
                               fields |-> extract_structured_fields(entity, core_type),
                               source_entities |-> <<name>>, confidence |-> 100,
                               provenance |-> <<>>]]>> \o rest

\* mutant of BothEndpointsAligned: one aligned endpoint is enough
BothEndpointsAligned_Either(relation, aligned) ==
    relation.source_entity \in MapKeys(aligned) \/ relation.target_entity \in MapKeys(aligned)

\* the negation of the skip test of line 913
BothEndpointsAligned(relation, aligned) ==
    ~(relation.source_entity \notin MapKeys(aligned)
        \/ relation.target_entity \notin MapKeys(aligned))

RECURSIVE align_relations(_, _)
\* align_relations, lines 907-938 (raw_entities is not read)
align_relations(relations, aligned) ==
    IF relations = <<>> THEN <<>>
    ELSE LET relation == Head(relations)
             rest == align_relations(Tail(relations), aligned)
         IN IF ~BothEndpointsAligned(relation, aligned) THEN rest
            ELSE <<[source_entity |-> relation.source_entity,
                    target_entity |-> relation.target_entity,
                    core_relation_type |-> map_relation_type(relation.relation_type),
                    description |-> relation.description,
                    confidence |-> relation.confidence,
                    source_relations |-> <<relation.relation_type>>,
                    provenance |-> <<>>]>> \o rest

(***************************************************************************)
(* EntityExtractor                                                         *)
(***************************************************************************)
MaxFragments == 3

\* the pool sizes the pipeline specification is run with
WorkerCounts == {1, 2}

\* the fragments process_document is run on: one per chunk at chunk size 5, but
\* for the one-character fragment, which joins the chunk before it
PipelineChunkSizes == {5}

PipelineFragments ==
    { [text |-> "abc", page_idx |-> 0, y |-> 0], [text |-> "   ", page_idx |-> 0, y |-> 1],
      [text |-> "d", page_idx |-> 1, y |-> 0], [text |-> "abc", page_idx |-> 1, y |-> 1] }

Relation(s, t, rt) ==
    [source_entity |-> s, target_entity |-> t, relation_type |-> rt,
     description |-> NONE, confidence |-> 100]

RawEntity(n, t, d, attrs) ==
    [name |-> n, type |-> t, description |-> d, attributes |-> attrs]

\* structured_llm.invoke(prompt) when it succeeds: what the capability answers for
\* the chunk of that index (a DocumentAnalysisSchema)
LLMResponse(chunk_idx) ==
    CASE chunk_idx = 0 ->
           [entities |-> <<RawEntity("aba", "company", "d", <<Attr("industry", "v1")>>)>>,
            relations |-> <<Relation("aba", "bca", "invested_by")>>]
      [] chunk_idx = 1 ->
           [entities |-> <<RawEntity("bca", "patent", NONE, <<>>)>>,
            relations |-> <<Relation("bca", "Bob", "cites")>>]
      [] chunk_idx = 2 ->
           [entities |-> <<RawEntity("Aba", "company", "dd", <<Attr("stage", "s1")>>),
                           RawEntity("ab", "Startup ", NONE, <<>>)>>,
            relations |-> <<Relation("ab", "Aba", "Works At")>>]
      [] OTHER ->
           [entities |-> <<RawEntity("ab", "founder", NONE, <<Attr("role", "r1")>>)>>,
            relations |-> <<>>]

\* ChunkAnalysisResult(chunk_idx, page_range, entities, relations)
ChunkAnalysisResult(chunk_idx, page_range, entities, relations) ==
    [chunk_idx |-> chunk_idx, page_range |-> page_range,
     entities |-> entities, relations |-> relations]

\* _format_page_range
format_page_range(pages) ==
    IF pages = <<>> THEN "unknown pages"
    ELSE IF Len(pages) = 1 THEN "page " \o ToString(pages[1])
    ELSE "pages " \o ToString(pages[1]) \o "-" \o ToString(pages[Len(pages)])

\* not text_content.strip()
IsBlank(text_content) == Strip(text_content) = ""

\* mutant of extract_from_chunk: the except branch returns the same as the try branch
extract_from_chunk_FailureIgnored(chunk_idx, page_range, call_ok) ==
    ChunkAnalysisResult(chunk_idx, page_range, LLMResponse(chunk_idx).entities,
                        LLMResponse(chunk_idx).relations)

\* extract_from_chunk from the invoke on (lines 424-439): call_ok is whether the
\* capability call returned
extract_from_chunk(chunk_idx, page_range, call_ok) ==
    IF call_ok
    THEN ChunkAnalysisResult(chunk_idx, page_range, LLMResponse(chunk_idx).entities,
                             LLMResponse(chunk_idx).relations)
    ELSE ChunkAnalysisResult(chunk_idx, page_range, <<>>, <<>>)

RECURSIVE extract_sequential(_, _, _)
\* _extract_sequential, lines 459-473, from chunk number i on, as a function of the
\* chunk list and of whether the capability call of each chunk returns
extract_sequential(chunk_list, call_oks, i) ==
    IF i > Len(chunk_list) THEN <<>>
    ELSE IF IsBlank(chunk_list[i].text) THEN extract_sequential(chunk_list, call_oks, i + 1)
    ELSE <<extract_from_chunk(i - 1, format_page_range(chunk_list[i].pages), call_oks[i])>>
             \o extract_sequential(chunk_list, call_oks, i + 1)

\* a future: its task is queued, calling (inside structured_llm.invoke), done or
\* caught (it returned the pair (idx, result): done after the call returned, caught
\* after the call failed and the except branch ran), or raised
Future(state, idx, result) == [state |-> state, idx |-> idx, result |-> result]

\* mutant of StoreResult: the result goes into the first free slot
StoreResult_FirstFree(slots, idx, result) ==
    LET free == {i \in 1..Len(slots) : slots[i] = NoneObject}
    IN [slots EXCEPT ![CHOOSE i \in free : \A j \in free : i <= j] = result]

\* results[idx] = result (idx counts from 0)
StoreResult(slots, idx, result) == [slots EXCEPT ![idx + 1] = result]

\* [r for r in results if r is not None]
FilterNone(slots) == SelectSeq(slots, LAMBDA r : r # NoneObject)

Calling == {i \in 1..Len(futures) : futures[i].state = "calling"}

\* mutant of WorkerFree: a worker that ran a task takes no other task
WorkerFree_NeverReused ==
    Cardinality({i \in 1..Len(futures) : futures[i].state # "queued"}) < max_workers

\* mutant of WorkerFree: the pool starts a thread for every submitted task
WorkerFree_Always == TRUE

\* ThreadPoolExecutor(max_workers=self.max_workers), line 491: a queued task starts
\* only on a worker that runs no task (a task past its call is finished at once)
WorkerFree == Cardinality(Calling) < max_workers

ExtractIdle ==
    /\ api_key = NONE
    /\ hung = {}
    /\ parallel = FALSE
    /\ max_workers = 0
    /\ prompt_ok = TRUE
    /\ futures = <<>>
    /\ completed = <<>>
    /\ results = <<>>
    /\ slot_writes = <<>>
    /\ collect_idx = 0
    /\ chunk_results = <<>>

GraphIdle ==
    /\ all_relations = <<>>
    /\ normalized_relations = <<>>
    /\ aligned_entities = <<>>
    /\ aligned_relations = <<>>
    /\ graph = NoneObject
    /\ build_call = NoneObject

\* what the environment holds for DASHSCOPE_API_KEY
ApiKeys == {NONE, "", "sk"}

\* mutant of CredentialMissing: an empty key passes
CredentialMissing_OnlyUnset(key) == key = NONE

\* not api_key (line 246)
CredentialMissing(key) == ~Truthy(key)

\* TextKnowledgeGraphPipeline.__init__: constructing the EntityExtractor calls
\* get_model, which raises when the key is missing; process_document is called on
\* the pipeline object once it exists
Construct ==
    /\ pc = "construct"
    /\ \/ /\ CredentialMissing(api_key)
          /\ pc' = "config_error"
       \/ /\ ~CredentialMissing(api_key)
          /\ pc' = "group_sort"
    /\ UNCHANGED <<grouper_vars, dedup_vars, extract_vars, graph_vars>>

\* extract_from_chunks, lines 452-457, with the first lines of the branch taken
ExtractDispatch ==
    /\ pc = "group_done"
    /\ \/ /\ parallel /\ Len(chunks) > 1
          /\ pc' = "par_pool"
          /\ results' = [i \in 1..Len(chunks) |-> NoneObject]
       \/ /\ ~(parallel /\ Len(chunks) > 1)
          /\ pc' = "seq_loop"
          /\ results' = <<>>
    /\ futures' = [i \in 1..Len(chunks) |-> Future("queued", NONE, NoneObject)]
    /\ slot_writes' = [i \in 1..Len(chunks) |-> 0]
    /\ collect_idx' = 0
    /\ UNCHANGED <<api_key, hung, parallel, max_workers, prompt_ok, completed, chunk_results>>
    /\ UNCHANGED <<grouper_vars, dedup_vars, graph_vars>>

\* a pool worker takes the oldest queued task and runs process_chunk up to the
\* capability call (lines 479-488, 416-422)
TaskStart(i) ==
    /\ pc = "par_pool"
    /\ futures[i].state = "queued"
    /\ \A j \in 1..(i - 1) : futures[j].state # "queued"
    /\ WorkerFree
    /\ LET idx == i - 1
           text_content == chunks[i].text
       IN \/ /\ IsBlank(text_content)
             /\ futures' = [futures EXCEPT ![i] =
                               Future("done", idx, ChunkAnalysisResult(idx, "empty", <<>>, <<>>))]
             /\ completed' = Append(completed, idx)
          \/ /\ ~IsBlank(text_content)
             /\ ~prompt_ok
             /\ futures' = [futures EXCEPT ![i] = Future("raised", NONE, NoneObject)]
             /\ completed' = Append(completed, idx)
          \/ /\ ~IsBlank(text_content)
             /\ prompt_ok
             /\ futures' = [futures EXCEPT ![i] = Future("calling", NONE, NoneObject)]
             /\ UNCHANGED completed
    /\ UNCHANGED <<pc, api_key, hung, parallel, max_workers, prompt_ok, results, slot_writes, collect_idx,
                   chunk_results>>
    /\ UNCHANGED <<grouper_vars, dedup_vars, graph_vars>>

\* the capability call of task i returns or fails; process_chunk returns (lines 424-439, 489)
TaskReturn(i) ==
    /\ pc = "par_pool"
    /\ futures[i].state = "calling"
    /\ i \notin hung
    /\ \E call_ok \in BOOLEAN :
           futures' = [futures EXCEPT ![i] =
                          Future(IF call_ok THEN "done" ELSE "caught", i - 1,
                                 extract_from_chunk(i - 1, format_page_range(chunks[i].pages),
                                                    call_ok))]
    /\ completed' = Append(completed, i - 1)
    /\ UNCHANGED <<pc, api_key, hung, parallel, max_workers, prompt_ok, results, slot_writes, collect_idx,
                   chunk_results>>
    /\ UNCHANGED <<grouper_vars, dedup_vars, graph_vars>>

\* one turn of "for future in futures", lines 493-498: future.result() waits for the task
Collect ==
    /\ pc = "par_pool"
    /\ collect_idx < Len(futures)
    /\ LET future == futures[collect_idx + 1]
       IN \/ /\ future.state \in {"done", "caught"}
             /\ results' = StoreResult(results, future.idx, future.result)
             /\ slot_writes' = [i \in 1..Len(results) |->
                                  slot_writes[i] + (IF results'[i] # results[i] THEN 1 ELSE 0)]
          \/ /\ future.state = "raised"
             /\ UNCHANGED <<results, slot_writes>>
    /\ collect_idx' = collect_idx + 1
    /\ UNCHANGED <<pc, api_key, hung, parallel, max_workers, prompt_ok, futures, completed, chunk_results>>
    /\ UNCHANGED <<grouper_vars, dedup_vars, graph_vars>>

\* the with block ends and _extract_parallel returns (line 501)
ParReturn ==
    /\ pc = "par_pool"
    /\ collect_idx = Len(futures)
    /\ chunk_results' = FilterNone(results)
    /\ pc' = "aggregate"
    /\ UNCHANGED <<api_key, hung, parallel, max_workers, prompt_ok, futures, completed, results, slot_writes,
                   collect_idx>>
    /\ UNCHANGED <<grouper_vars, dedup_vars, graph_vars>>

\* one turn of the loop of _extract_sequential up to the capability call (lines 462-470)
SeqStep ==
    /\ pc = "seq_loop"
    /\ collect_idx < Len(chunks)
    /\ Calling = {}
    /\ LET i == collect_idx + 1
       IN \/ /\ IsBlank(chunks[i].text)
             /\ collect_idx' = collect_idx + 1
             /\ UNCHANGED <<pc, futures>>
          \/ /\ ~IsBlank(chunks[i].text)
             /\ ~prompt_ok
             /\ pc' = "raised"
             /\ futures' = [futures EXCEPT ![i] = Future("raised", NONE, NoneObject)]
             /\ UNCHANGED collect_idx
          \/ /\ ~IsBlank(chunks[i].text)
             /\ prompt_ok
             /\ futures' = [futures EXCEPT ![i] = Future("calling", NONE, NoneObject)]
             /\ UNCHANGED <<pc, collect_idx>>
    /\ UNCHANGED <<api_key, hung, parallel, max_workers, prompt_ok, completed, results, slot_writes,
                   chunk_results>>
    /\ UNCHANGED <<grouper_vars, dedup_vars, graph_vars>>

\* the capability call returns or fails and the result is appended (lines 470-471)
SeqReturn ==
    /\ pc = "seq_loop"
    /\ collect_idx < Len(chunks)
    /\ futures[collect_idx + 1].state = "calling"
    /\ collect_idx + 1 \notin hung
    /\ \E call_ok \in BOOLEAN :
           LET i == collect_idx + 1
               result == extract_from_chunk(i - 1, format_page_range(chunks[i].pages), call_ok)
           IN /\ futures' = [futures EXCEPT ![i] =
                                 Future(IF call_ok THEN "done" ELSE "caught", i - 1, result)]
              /\ results' = Append(results, result)
    /\ completed' = Append(completed, collect_idx)
    /\ collect_idx' = collect_idx + 1
    /\ UNCHANGED <<pc, api_key, hung, parallel, max_workers, prompt_ok, slot_writes, chunk_results>>
    /\ UNCHANGED <<grouper_vars, dedup_vars, graph_vars>>

\* _extract_sequential returns (line 473)
SeqFinish ==
    /\ pc = "seq_loop"
    /\ collect_idx = Len(chunks)
    /\ chunk_results' = results
    /\ pc' = "aggregate"
    /\ UNCHANGED <<api_key, hung, parallel, max_workers, prompt_ok, futures, completed, results, slot_writes,
                   collect_idx>>
    /\ UNCHANGED <<grouper_vars, dedup_vars, graph_vars>>

(***************************************************************************)
(* TextKnowledgeGraphPipeline.process_document, steps 4 to 9               *)
(***************************************************************************)
\* step 4, lines 1133-1140, and the call of step 5
Aggregate ==
    /\ pc = "aggregate"
    /\ all_entities' =
           WithEntityIds(Concat([i \in 1..Len(chunk_results) |-> chunk_results[i].entities]))
    /\ all_relations' = Concat([i \in 1..Len(chunk_results) |-> chunk_results[i].relations])
    /\ owner' = [i \in 1..Len(all_entities') |-> 0]
    /\ pc' = "dedup_group"
    /\ UNCHANGED <<similarity_threshold, dedup_order, dedup_idx, deduplicated_entities,
                   rededuplicated>>
    /\ UNCHANGED <<normalized_relations, aligned_entities, aligned_relations, graph,
                   build_call>>
    /\ UNCHANGED <<grouper_vars, extract_vars>>

\* step 6, line 1146
Normalize ==
    /\ pc = "dedup_done"
    /\ normalized_relations' =
           normalize_relations(all_relations, deduplicated_entities, similarity_threshold)
    /\ pc' = "normalized"
    /\ UNCHANGED <<all_relations, aligned_entities, aligned_relations, graph,
                   build_call>>
    /\ UNCHANGED <<grouper_vars, dedup_vars, extract_vars>>

\* step 7, line 1149
AlignEntities ==
    /\ pc = "normalized"
    /\ aligned_entities' = align_entities(deduplicated_entities)
    /\ pc' = "entities_aligned"
    /\ UNCHANGED <<all_relations, normalized_relations, aligned_relations, graph,
                   build_call>>
    /\ UNCHANGED <<grouper_vars, dedup_vars, extract_vars>>

\* step 8, lines 1152-1156
AlignRelations ==
    /\ pc = "entities_aligned"
    /\ aligned_relations' = align_relations(normalized_relations, aligned_entities)
    /\ pc' = "relations_aligned"
    /\ UNCHANGED <<all_relations, normalized_relations, aligned_entities, graph,
                   build_call>>
    /\ UNCHANGED <<grouper_vars, dedup_vars, extract_vars>>

\* an Optional argument that is given
Some(v) == [is_none |-> FALSE, value |-> v]

\* "if x is None: x = default"
OrDefault(opt, default) == IF opt = NoneObject THEN default ELSE opt.value

\* m[k]
MapGet(m, k) == m[MapIndex(m, k)].value

\* datetime.now().isoformat(): the reading of the clock
NOW == "<now>"

\* mutant of SetCount: a value the caller supplied under the key is kept
SetCount_KeepCaller(metadata, key, n) ==
    IF key \in MapKeys(metadata) THEN metadata ELSE MapPut(metadata, key, n)

\* metadata['total_...'] = len(...)
SetCount(metadata, key, n) == MapPut(metadata, key, n)

\* KnowledgeGraphBuilder.build (a list(set(...)) is kept as the set); the graph's
\* metadata is the caller's dict with the keys of lines 1044-1057 assigned
build(entities, relations, aligned_opt, aligned_rels_opt, metadata_opt) ==
    LET aligned == OrDefault(aligned_opt, <<>>)
        aligned_rels == OrDefault(aligned_rels_opt, <<>>)
        m0 == OrDefault(metadata_opt, <<>>)
        m1 == SetCount(m0, "total_entities", Len(entities))
        m2 == SetCount(m1, "total_relations", Len(relations))
        m3 == MapPut(m2, "entity_types", {entities[i].value.type : i \in 1..Len(entities)})
        m4 == MapPut(m3, "relation_types",
                     {relations[i].relation_type : i \in 1..Len(relations)})
        m5 == SetCount(m4, "total_aligned_entities", Len(aligned))
        m6 == SetCount(m5, "total_aligned_relations", Len(aligned_rels))
        m7 == IF aligned # <<>>
              THEN MapPut(m6, "aligned_entity_types",
                          {aligned[i].value.core_type : i \in 1..Len(aligned)})
              ELSE m6
        m8 == IF aligned_rels # <<>>
              THEN MapPut(m7, "aligned_relation_types",
                          {aligned_rels[i].core_relation_type : i \in 1..Len(aligned_rels)})
              ELSE m7
        m9 == MapPut(m8, "build_time", NOW)
    IN [entities |-> entities,
        relations |-> relations,
        aligned_entities |-> aligned,
        aligned_relations |-> aligned_rels,
        metadata |-> m9]

\* step 9, lines 1159-1173
Build ==
    /\ pc = "relations_aligned"
    /\ graph' = build(deduplicated_entities, normalized_relations, Some(aligned_entities),
                      Some(aligned_relations),
                      Some(<<[key |-> "source_file", value |-> "doc.json"],
                             [key |-> "total_chunks", value |-> Len(chunks)],
                             [key |-> "total_text_items", value |-> Len(text_items)],
                             [key |-> "chunk_size", value |-> chunk_size],
                             [key |-> "parallel_processing", value |-> parallel]>>))
    /\ pc' = "done"
    /\ UNCHANGED <<all_relations, normalized_relations, aligned_entities, aligned_relations,
                   build_call>>
    /\ UNCHANGED <<grouper_vars, dedup_vars, extract_vars>>

\* KnowledgeGraphBuilder.build is called on its own
BuildCall ==
    /\ pc = "build_call"
    /\ graph' = build(build_call.entities, build_call.relations, build_call.aligned_entities,
                      build_call.aligned_relations, build_call.metadata)
    /\ pc' = "build_done"
    /\ UNCHANGED <<all_relations, normalized_relations, aligned_entities, aligned_relations,
                   build_call>>
    /\ UNCHANGED <<grouper_vars, dedup_vars, extract_vars>>

\* group_by_dynamic_size is called on a list of text items
GroupInit ==
    /\ pc = "group_sort"
    /\ text_items \in {WithIds(s) : s \in ItemLists}
    /\ chunk_size \in ChunkSizes
    /\ sorted_items = <<>>
    /\ item_idx = 0
    /\ chunks = <<>>
    /\ current_chunk_items = <<>>
    /\ current_chunk_text_length = 0
    /\ current_chunk_pages = {}
    /\ DedupIdle
    /\ ExtractIdle
    /\ GraphIdle

\* deduplicate_entities is called on a list of entities
DedupInit ==
    /\ pc = "dedup_group"
    /\ all_entities \in {WithEntityIds(s) : s \in SeqsUpTo(EntityPool, MaxEntities)}
    /\ similarity_threshold \in Thresholds
    /\ dedup_order = <<>>
    /\ dedup_idx = 0
    /\ deduplicated_entities = <<>>
    /\ owner = [i \in 1..Len(all_entities) |-> 0]
    /\ rededuplicated = <<>>
    /\ GrouperIdle
    /\ ExtractIdle
    /\ GraphIdle

\* deduplicate_entities is called on entities of one name and one type that differ
\* in their descriptions only: every entity after the first is merged into the first
MaxMerged == 4

Descriptions == {NONE, "", "d", "e", "dd"}

MergePool == {RawEntity("aba", "company", d, <<>>) : d \in Descriptions}

MergeInit ==
    /\ pc = "dedup_group"
    /\ all_entities \in {WithEntityIds(s) : s \in SeqsUpTo(MergePool, MaxMerged)}
    /\ similarity_threshold = DefaultThreshold
    /\ dedup_order = <<>>
    /\ dedup_idx = 0
    /\ deduplicated_entities = <<>>
    /\ owner = [i \in 1..Len(all_entities) |-> 0]
    /\ rededuplicated = <<>>
    /\ GrouperIdle
    /\ ExtractIdle
    /\ GraphIdle

\* deduplicate_entities is called on entities among which two of one type have
\* names that are equal up to letter case
MaxCaseEntities == 4

CaseThresholds == {50, DefaultThreshold, 100}

CasePool ==
    { RawEntity("aba", "person", NONE, <<>>), RawEntity("bca", "company", NONE, <<>>),
      RawEntity("aba", "company", NONE, <<>>), RawEntity("Bca", "company", NONE, <<>>) }

CaseInit ==
    /\ pc = "dedup_group"
    /\ all_entities \in {WithEntityIds(s) : s \in SeqsUpTo(CasePool, MaxCaseEntities)}
    /\ similarity_threshold \in CaseThresholds
    /\ dedup_order = <<>>
    /\ dedup_idx = 0
    /\ deduplicated_entities = <<>>
    /\ owner = [i \in 1..Len(all_entities) |-> 0]
    /\ rededuplicated = <<>>
    /\ GrouperIdle
    /\ ExtractIdle
    /\ GraphIdle

\* deduplicate_entities is called on entities of one type among which one name is
\* similar to two others that are not similar to each other
MaxBestMatch == 3

BestMatchPool ==
    { RawEntity("a", "company", NONE, <<>>), RawEntity("bc", "company", NONE, <<>>),
      RawEntity("abc", "company", NONE, <<>>) }

BestMatchInit ==
    /\ pc = "dedup_group"
    /\ all_entities \in {WithEntityIds(s) : s \in SeqsUpTo(BestMatchPool, MaxBestMatch)}
    /\ similarity_threshold \in Thresholds
    /\ dedup_order = <<>>
    /\ dedup_idx = 0
    /\ deduplicated_entities = <<>>
    /\ owner = [i \in 1..Len(all_entities) |-> 0]
    /\ rededuplicated = <<>>
    /\ GrouperIdle
    /\ ExtractIdle
    /\ GraphIdle

\* TextKnowledgeGraphPipeline is to be constructed, and process_document then
\* called on a document of text items (the pipeline's similarity_threshold is its
\* default)
PipelineInit ==
    /\ pc = "construct"
    /\ api_key \in ApiKeys
    /\ hung = {}
    /\ text_items \in {WithIds(s) : s \in SeqsUpTo(PipelineFragments, MaxFragments)}
    /\ chunk_size \in PipelineChunkSizes
    /\ sorted_items = <<>>
    /\ item_idx = 0
    /\ chunks = <<>>
    /\ current_chunk_items = <<>>
    /\ current_chunk_text_length = 0
    /\ current_chunk_pages = {}
    /\ all_entities = <<>>
    /\ similarity_threshold = DefaultThreshold
    /\ dedup_order = <<>>
    /\ dedup_idx = 0
    /\ deduplicated_entities = <<>>
    /\ owner = <<>>
    /\ rededuplicated = <<>>
    /\ parallel \in BOOLEAN
    /\ max_workers \in WorkerCounts
    /\ prompt_ok \in BOOLEAN
    /\ futures = <<>>
    /\ completed = <<>>
    /\ results = <<>>
    /\ slot_writes = <<>>
    /\ collect_idx = 0
    /\ chunk_results = <<>>
    /\ GraphIdle

\* steps 2 and 3 in parallel mode on fragments that make one chunk each, where the
\* capability calls of up to two tasks never return
StuckFragments ==
    { [text |-> "abc", page_idx |-> 0, y |-> 0], [text |-> "   ", page_idx |-> 1, y |-> 0] }

StuckInit ==
    /\ pc = "group_sort"
    /\ api_key = "sk"
    /\ hung \in {h \in SUBSET (1..MaxFragments) : Cardinality(h) <= 2}
    /\ text_items \in {WithIds(s) : s \in SeqsUpTo(StuckFragments, MaxFragments)}
    /\ chunk_size \in PipelineChunkSizes
    /\ sorted_items = <<>>
    /\ item_idx = 0
    /\ chunks = <<>>
    /\ current_chunk_items = <<>>
    /\ current_chunk_text_length = 0
    /\ current_chunk_pages = {}
    /\ all_entities = <<>>
    /\ similarity_threshold = DefaultThreshold
    /\ dedup_order = <<>>
    /\ dedup_idx = 0
    /\ deduplicated_entities = <<>>
    /\ owner = <<>>
    /\ rededuplicated = <<>>
    /\ parallel = TRUE
    /\ max_workers \in WorkerCounts
    /\ prompt_ok = TRUE
    /\ futures = <<>>
    /\ completed = <<>>
    /\ results = <<>>
    /\ slot_writes = <<>>
    /\ collect_idx = 0
    /\ chunk_results = <<>>
    /\ GraphIdle

\* steps 5 to 9 alone, on entity and relation lists of any content
MaxGraphEntities == 2
MaxRelations == 2

GraphEntityPool ==
    { RawEntity("aba", "company", "d", <<Attr("industry", "v1")>>),
      RawEntity("bca", "patent", NONE, <<>>),
      RawEntity("Aba", "Startup ", "dd", <<Attr("stage", "s1")>>),
      RawEntity("ab", "gizmo", NONE, <<>>) }

RelationPool ==
    { Relation("aba", "bca", "invested_by"), Relation("ab", "Aba", "Works At"),
      Relation("aba", "Bob", "invested_by"), Relation("Aba", "aba", "zzz") }

GraphInit ==
    /\ pc = "dedup_group"
    /\ all_entities \in {WithEntityIds(s) : s \in SeqsUpTo(GraphEntityPool, MaxGraphEntities)}
    /\ similarity_threshold \in Thresholds
    /\ dedup_order = <<>>
    /\ dedup_idx = 0
    /\ deduplicated_entities = <<>>
    /\ owner = [i \in 1..Len(all_entities) |-> 0]
    /\ rededuplicated = <<>>
    /\ all_relations \in SeqsUpTo(RelationPool, MaxRelations)
    /\ normalized_relations = <<>>
    /\ aligned_entities = <<>>
    /\ aligned_relations = <<>>
    /\ graph = NoneObject
    /\ build_call = NoneObject
    /\ GrouperIdle
    /\ ExtractIdle

\* steps 5 to 9 on entity lists in which a name occurs with two types
MaxSameName == 2

SameNamePool ==
    { RawEntity("bca", "patent", "d", <<Attr("industry", "v1")>>),
      RawEntity("bca", "company", NONE, <<>>),
      RawEntity("aba", "company", NONE, <<>>) }

SameNameInit ==
    /\ pc = "dedup_group"
    /\ all_entities \in {WithEntityIds(s) : s \in SeqsUpTo(SameNamePool, MaxSameName)}
    /\ similarity_threshold \in Thresholds
    /\ dedup_order = <<>>
    /\ dedup_idx = 0
    /\ deduplicated_entities = <<>>
    /\ owner = [i \in 1..Len(all_entities) |-> 0]
    /\ rededuplicated = <<>>
    /\ all_relations \in SeqsUpTo(RelationPool, 1)
    /\ normalized_relations = <<>>
    /\ aligned_entities = <<>>
    /\ aligned_relations = <<>>
    /\ graph = NoneObject
    /\ build_call = NoneObject
    /\ GrouperIdle
    /\ ExtractIdle

\* steps 5 and 6 on entities of three types, so that every name is a key, and one
\* relation whose endpoints are a key, a name equally similar to two keys, a name
\* more similar to a later key than to an earlier one, or a name with no character
\* of any key; the threshold may be 0
MaxResolve == 3
ResolveThresholds == {0, 50, DefaultThreshold}

ResolvePool ==
    { RawEntity("aba", "company", NONE, <<>>),
      RawEntity("Aba", "person", NONE, <<>>),
      RawEntity("bc", "patent", NONE, <<>>) }

ResolveRelationPool ==
    { Relation("aba", "ABA", "invested_by"), Relation("ABA", "abc", "invested_by"),
      Relation("abc", "abc", "invested_by"), Relation("xyz", "aba", "invested_by"),
      Relation("xyz", "xyz", "invested_by") }

ResolveInit ==
    /\ pc = "dedup_group"
    /\ all_entities \in {WithEntityIds(s) : s \in SeqsUpTo(ResolvePool, MaxResolve)}
    /\ similarity_threshold \in ResolveThresholds
    /\ dedup_order = <<>>
    /\ dedup_idx = 0
    /\ deduplicated_entities = <<>>
    /\ owner = [i \in 1..Len(all_entities) |-> 0]
    /\ rededuplicated = <<>>
    /\ all_relations \in SeqsUpTo(ResolveRelationPool, 1)
    /\ normalized_relations = <<>>
    /\ aligned_entities = <<>>
    /\ aligned_relations = <<>>
    /\ graph = NoneObject
    /\ build_call = NoneObject
    /\ GrouperIdle
    /\ ExtractIdle

\* steps 5 and 6 on entities one of which may have the empty string as its name,
\* and relations that differ in type, description and confidence
MaxEmptyName == 2

EmptyNamePool ==
    { RawEntity("", "company", NONE, <<>>),
      RawEntity("aba", "company", "d", <<>>),
      RawEntity("bca", "patent", NONE, <<>>) }

EmptyNameRelationPool ==
    { Relation("", "aba", "invested_by"),
      [Relation("aba", "bca", "zzz") EXCEPT !.description = "d", !.confidence = 50],
      Relation("aba", "Bob", "Works At"),
      [Relation("Aba", "", "owns") EXCEPT !.description = "e"] }

EmptyNameInit ==
    /\ pc = "dedup_group"
    /\ all_entities \in {WithEntityIds(s) : s \in SeqsUpTo(EmptyNamePool, MaxEmptyName)}
    /\ similarity_threshold \in Thresholds
    /\ dedup_order = <<>>
    /\ dedup_idx = 0
    /\ deduplicated_entities = <<>>
    /\ owner = [i \in 1..Len(all_entities) |-> 0]
    /\ rededuplicated = <<>>
    /\ all_relations \in SeqsUpTo(EmptyNameRelationPool, 2)
    /\ normalized_relations = <<>>
    /\ aligned_entities = <<>>
    /\ aligned_relations = <<>>
    /\ graph = NoneObject
    /\ build_call = NoneObject
    /\ GrouperIdle
    /\ ExtractIdle

\* steps 5 to 9 on one entity whose raw type is any key of ENTITY_TYPE_MAPPING, a
\* key in another case or with blanks around it, a compound of keys, a part of a
\* key, the empty string, or a string that shares nothing with any key
RawEntityTypes ==
    {ENTITY_TYPE_MAPPING[i][1] : i \in 1..Len(ENTITY_TYPE_MAPPING)}
        \cup {"", " ", " Startup ", "INVESTMENT", "investment firm", "ap", "e",
              "tag_concepts", "companies", "gizmo", "patent pending", "news report"}

EntityTypeInit ==
    /\ pc = "dedup_group"
    /\ all_entities \in {WithEntityIds(<<RawEntity("aba", t, NONE, <<>>)>>) : t \in RawEntityTypes}
    /\ similarity_threshold = DefaultThreshold
    /\ dedup_order = <<>>
    /\ dedup_idx = 0
    /\ deduplicated_entities = <<>>
    /\ owner = [i \in 1..Len(all_entities) |-> 0]
    /\ rededuplicated = <<>>
    /\ all_relations \in {<<>>, <<Relation("aba", "aba", "owns")>>}
    /\ normalized_relations = <<>>
    /\ aligned_entities = <<>>
    /\ aligned_relations = <<>>
    /\ graph = NoneObject
    /\ build_call = NoneObject
    /\ GrouperIdle
    /\ ExtractIdle

\* steps 5 to 9 on one entity of a raw type of each core type, carrying no
\* attribute, an attribute for every structured field of every core type, or the
\* alternative attribute names
FieldTypes == {"company", "person", "technology", "product", "tag", "event", "signal", "patent"}

FieldAttributes ==
    { <<>>,
      <<Attr("legal_name", "v1"), Attr("founded_date", "v2"), Attr("stage", "v3"),
        Attr("industry", "v4"), Attr("location", "v5"), Attr("website", "v6"),
        Attr("education", "v7"), Attr("position", "v8"), Attr("expertise", "v9"),
        Attr("application_domain", "v10"), Attr("technical_characteristics", "v11"),
        Attr("maturity_level", "v12"), Attr("version", "v13"), Attr("features", "v14")>>,
      <<Attr("founding_date", "w2"), Attr("funding_stage", "w3"), Attr("region", "w5"),
        Attr("education_background", "w7"), Attr("role", "w8"), Attr("domain", "w10"),
        Attr("characteristics", "w11"), Attr("maturity", "w12")>>,
      <<Attr("position", "v8"), Attr("features", ""), Attr("industry", "v4")>> }

FieldsInit ==
    /\ pc = "dedup_group"
    /\ all_entities \in {WithEntityIds(<<RawEntity("aba", t, NONE, a)>>) :
                            t \in FieldTypes, a \in FieldAttributes}
    /\ similarity_threshold = DefaultThreshold
    /\ dedup_order = <<>>
    /\ dedup_idx = 0
    /\ deduplicated_entities = <<>>
    /\ owner = [i \in 1..Len(all_entities) |-> 0]
    /\ rededuplicated = <<>>
    /\ all_relations \in {<<>>, <<Relation("aba", "aba", "owns")>>}
    /\ normalized_relations = <<>>
    /\ aligned_entities = <<>>
    /\ aligned_relations = <<>>
    /\ graph = NoneObject
    /\ build_call = NoneObject
    /\ GrouperIdle
    /\ ExtractIdle

\* steps 5 to 9 on one company and one relation from it to itself whose raw type
\* is any label of CoreRelationType.all_types(), a key of RELATION_TYPE_MAPPING
\* written with a blank and capitals, the empty string, or a string that shares
\* nothing with any key
RawRelationTypes ==
    Range(CoreRelationTypes) \cup {"Works At", " Funded By ", "", "zzz", "owns"}

RelationTypeInit ==
    /\ pc = "dedup_group"
    /\ all_entities = WithEntityIds(<<RawEntity("aba", "company", NONE, <<>>)>>)
    /\ similarity_threshold = DefaultThreshold
    /\ dedup_order = <<>>
    /\ dedup_idx = 0
    /\ deduplicated_entities = <<>>
    /\ owner = [i \in 1..Len(all_entities) |-> 0]
    /\ rededuplicated = <<>>
    /\ all_relations \in {<<Relation("aba", "aba", t)>> : t \in RawRelationTypes}
    /\ normalized_relations = <<>>
    /\ aligned_entities = <<>>
    /\ aligned_relations = <<>>
    /\ graph = NoneObject
    /\ build_call = NoneObject
    /\ GrouperIdle
    /\ ExtractIdle

\* KnowledgeGraphBuilder.build is called with arguments of any content, with
\* metadata that may hold the keys build assigns
BuildEntityMaps ==
    { <<>>,
      <<[key |-> "aba", value |-> RawEntity("aba", "company", "d", <<>>)]>>,
      <<[key |-> "aba", value |-> RawEntity("aba", "company", "d", <<>>)],
        [key |-> "ab", value |-> RawEntity("ab", "gizmo", NONE, <<>>)]>> }

BuildRelationLists ==
    { <<>>, <<Relation("aba", "aba", "invested_by")>>,
      <<Relation("aba", "ab", "zzz"), Relation("ab", "aba", "Works At")>> }

BuildMetadata ==
    { NoneObject,
      Some(<<>>),
      Some(<<[key |-> "source_file", value |-> "doc.json"]>>),
      Some(<<[key |-> "total_entities", value |-> 99],
             [key |-> "total_relations", value |-> 0],
             [key |-> "total_aligned_entities", value |-> 1],
             [key |-> "total_aligned_relations", value |-> 99]>>) }

BuildCalls ==
    { [entities |-> e, relations |-> r, aligned_entities |-> a, aligned_relations |-> ar,
       metadata |-> m] :
          e \in BuildEntityMaps, r \in BuildRelationLists,
          a \in {NoneObject} \cup {Some(align_entities(x)) : x \in BuildEntityMaps},
          ar \in {NoneObject}
                   \cup {Some(align_relations(x, align_entities(y)))
                             : x \in BuildRelationLists, y \in BuildEntityMaps},
          m \in BuildMetadata }

BuildInit ==
    /\ pc = "build_call"
    /\ build_call \in BuildCalls
    /\ graph = NoneObject
    /\ all_relations = <<>>
    /\ normalized_relations = <<>>
    /\ aligned_entities = <<>>
    /\ aligned_relations = <<>>
    /\ GrouperIdle
    /\ DedupIdle
    /\ ExtractIdle

(***************************************************************************)
(* Claims on ChunkGrouper.group_by_dynamic_size (under SpecGroup)          *)
(***************************************************************************)
\* the fragments of all chunks, in chunk order
ChunkedItems == Concat([c \in 1..Len(chunks) |-> chunks[c].items])

\* C1: the fragments of the returned chunks, concatenated in chunk order, are the
\* input fragments sorted by (page index, position): each input fragment occurs
\* exactly once, unchanged, and in sorted order (input order among equal keys).
C1_ChunkCoverage ==
    pc = "group_done" =>
        LET flat == ChunkedItems
        IN /\ Len(flat) = Len(text_items)
           /\ {flat[i].id : i \in 1..Len(flat)} = 1..Len(text_items)
           /\ \A i \in 1..Len(flat) : flat[i] = text_items[flat[i].id]
           /\ \A i, j \in 1..Len(flat) :
                  i < j => /\ ~SortKeyLess(flat[j], flat[i])
                           /\ (~SortKeyLess(flat[i], flat[j]) => flat[i].id < flat[j].id)

\* C1 witness: an input that was not in sorted order ended in more than one chunk
C1_Witness ==
    /\ pc = "group_done"
    /\ Len(chunks) >= 2
    /\ \E i \in 1..Len(text_items) - 1 : SortKeyLess(text_items[i + 1], text_items[i])

\* C2 (as stated): every returned chunk with more than one fragment has
\* length <= chunk_size, whatever the fragments (fragments with empty text included).
C2_MultiFragmentChunkWithinSize ==
    \A c \in 1..Len(chunks) :
        Len(chunks[c].items) > 1 => chunks[c].length <= chunk_size

\* C27 (as stated): at each fragment the current chunk is closed and a new one
\* started with the fragment exactly when the current chunk holds at least one
\* fragment and its length plus the fragment's length exceeds chunk_size; in every
\* other case the fragment joins the current chunk. And of two consecutive chunks
\* the length of the earlier plus the length of the first fragment of the later
\* exceeds chunk_size.
C27_SplitExactlyWhenStated ==
    /\ [][(pc = "group_loop" /\ item_idx' = item_idx + 1) =>
             LET item == sorted_items[item_idx + 1]
                 split_stated ==
                     /\ current_chunk_items # <<>>
                     /\ current_chunk_text_length + Len(item.text) > chunk_size
             IN IF split_stated
                THEN /\ chunks' = Append(chunks, MakeChunk(current_chunk_items,
                                                           current_chunk_pages,
                                                           current_chunk_text_length))
                     /\ current_chunk_items' = <<item>>
                     /\ current_chunk_text_length' = Len(item.text)
                ELSE /\ chunks' = chunks
                     /\ current_chunk_items' = Append(current_chunk_items, item)
                     /\ current_chunk_text_length' =
                            current_chunk_text_length + Len(item.text)]_vars
    /\ [](\A c \in 1..Len(chunks) - 1 :
              chunks[c].length + Len(chunks[c + 1].items[1].text) > chunk_size)

(***************************************************************************)
(* Claims on EntityDeduplicator.deduplicate_entities (under SpecDedup)     *)
(***************************************************************************)
AttrNames(attributes) == {attributes[i].name : i \in 1..Len(attributes)}

\* C9 (as stated): deduplication is idempotent: the second call, on the values of
\* the first call's result in dict order, merges nothing and returns the same set
\* of canonical names.
C9_DedupIdempotent ==
    pc = "rededup_done" =>
        /\ Len(rededuplicated) = Len(deduplicated_entities)
        /\ MapKeys(rededuplicated) = MapKeys(deduplicated_entities)

\* C10 (as stated): after deduplicate_entities the attribute list of every
\* canonical entity is at least as long as the attribute list of every raw entity
\* that went into it (its founder and every candidate merged into it).
C10_AttributesNotShorter ==
    pc = "dedup_done" =>
        \A k \in 1..Len(deduplicated_entities) :
            \A i \in 1..Len(all_entities) :
                owner[i] = deduplicated_entities[k].value.id =>
                    Len(deduplicated_entities[k].value.attributes)
                        >= Len(all_entities[i].attributes)

\* C10 (amended): the attribute list of every canonical entity is at least as long
\* as the attribute list of its founder, and has at least as many entries as there
\* are distinct attribute names on any raw entity merged into it (so it is not
\* shorter than the list of any merged candidate whose attribute names are
\* pairwise distinct).
C10_AttributesCoverNames ==
    pc = "dedup_done" =>
        \A k \in 1..Len(deduplicated_entities) :
            LET e == deduplicated_entities[k].value
            IN /\ Len(e.attributes) >= Len(all_entities[e.id].attributes)
               /\ \A i \in 1..Len(all_entities) :
                      owner[i] = e.id =>
                          /\ AttrNames(all_entities[i].attributes) \subseteq AttrNames(e.attributes)
                          /\ Len(e.attributes) >= Cardinality(AttrNames(all_entities[i].attributes))

\* C10 witness: a candidate with attributes of a name the canonical entity lacked
\* was merged, and the canonical entity's list grew
C10_Witness ==
    /\ pc = "dedup_done"
    /\ \E k \in 1..Len(deduplicated_entities) :
           LET e == deduplicated_entities[k].value
           IN /\ \E i \in 1..Len(all_entities) : i # e.id /\ owner[i] = e.id
              /\ Len(e.attributes) > Len(all_entities[e.id].attributes)

(***************************************************************************)
(* Claims on EntityDeduplicator._merge_entities (under SpecMerge)          *)
(***************************************************************************)
\* len(description), an absent description counting as 0
DescLen(description) == IF description = NONE THEN 0 ELSE Len(description)

\* C11: in every step that merges a candidate into a canonical entity, the
\* description of the canonical entity becomes the candidate's description when
\* that is non-empty and strictly longer than the current one (an absent one
\* counting as length 0) and is left unchanged otherwise, so its length never
\* decreases across the merges.
C11_DescriptionLengthMonotone ==
    [][(pc = "dedup_loop" /\ dedup_idx' = dedup_idx + 1) =>
          LET candidate == dedup_order[dedup_idx + 1]
          IN \A k \in 1..Len(deduplicated_entities) :
                 LET old == deduplicated_entities[k].value
                     new == deduplicated_entities'[k].value
                 IN new.id = old.id =>
                        /\ DescLen(new.description) >= DescLen(old.description)
                        /\ IF /\ owner'[candidate.id] = old.id
                              /\ candidate.description \notin {NONE, ""}
                              /\ DescLen(candidate.description) > DescLen(old.description)
                           THEN new.description = candidate.description
                           ELSE new.description = old.description]_vars

\* C11 witness: three entities went into one canonical entity; the second one's
\* description replaced the first one's, the third one's, not longer, did not
C11_Witness ==
    /\ pc = "dedup_done"
    /\ Len(all_entities) >= 3
    /\ Len(deduplicated_entities) = 1
    /\ deduplicated_entities[1].value.description = all_entities[2].description
    /\ all_entities[1].description # all_entities[2].description
    /\ all_entities[3].description \notin {NONE, "", all_entities[2].description}

(***************************************************************************)
(* Claims on deduplicate_entities and names that differ in case (under     *)
(* SpecCase)                                                               *)
(***************************************************************************)
\* C12 (as stated): two raw entities of one type whose names are equal up to
\* letter case end in one canonical entity, whatever the threshold up to 1.0 and
\* whatever else is in the list.
C12_CaseVariantsMerged ==
    pc = "dedup_done" =>
        \A i, j \in 1..Len(all_entities) :
            (/\ i < j
             /\ all_entities[i].type = all_entities[j].type
             /\ Lower(all_entities[i].name) = Lower(all_entities[j].name))
                => owner[i] = owner[j]

(***************************************************************************)
(* Claims on the choice of the canonical entity (under SpecBestMatch)      *)
(***************************************************************************)
\* C17 (as stated): a candidate that is merged is merged into the canonical entity
\* of its type whose name is most similar to its own: no canonical entity of its
\* type has a name more similar to it than the one it goes into.
C17_MergedIntoBestMatch ==
    [][(pc = "dedup_loop" /\ dedup_idx' = dedup_idx + 1) =>
          LET candidate == dedup_order[dedup_idx + 1]
          IN \A m \in 1..Len(deduplicated_entities) :
                 (/\ owner'[candidate.id] = deduplicated_entities[m].value.id
                  /\ owner'[candidate.id] # candidate.id) =>
                     \A k \in 1..Len(deduplicated_entities) :
                         deduplicated_entities[k].value.type = candidate.type =>
                             ~SimGreater(
                                  calculate_similarity(candidate.name,
                                                       deduplicated_entities[k].key),
                                  calculate_similarity(candidate.name,
                                                       deduplicated_entities[m].key))]_vars

(***************************************************************************)
(* Claims on EntityExtractor.extract_from_chunks (under SpecPipeline)      *)
(***************************************************************************)
\* extract_from_chunks has returned
ExtractReturned ==
    pc \in {"aggregate", "dedup_group", "dedup_loop", "dedup_done", "normalized",
            "entities_aligned", "relations_aligned", "done"}

\* _extract_parallel was entered
InParallel == pc \notin {"group_sort", "group_loop", "group_done"} /\ parallel /\ Len(chunks) > 1

\* chunks whose capability call failed, and chunks whose capability call returned
FailedChunks == {i \in 1..Len(futures) : futures[i].state = "caught"}
SucceededChunks ==
    {i \in 1..Len(futures) : futures[i].state = "done" /\ ~IsBlank(chunks[i].text)}

\* what chunk i yields when its capability call returns
ExpectedResult(i) ==
    ChunkAnalysisResult(i - 1, format_page_range(chunks[i].pages),
                        LLMResponse(i - 1).entities, LLMResponse(i - 1).relations)

\* C3 (as stated): in both modes, and with blank chunks too, extract_from_chunks
\* returns exactly one result per chunk, the result at position i carrying
\* chunk_idx i (here with a prompt that can be built).
C3_OneResultPerChunk ==
    (ExtractReturned /\ prompt_ok) =>
        /\ Len(chunk_results) = Len(chunks)
        /\ \A i \in 1..Len(chunk_results) : chunk_results[i].chunk_idx = i - 1

\* C4: when the capability call of a chunk failed, no exception leaves
\* extract_from_chunks or process_document, the chunk yields a result with empty
\* entities and relations, every chunk whose call returned yields what it yields
\* without the failure, and the graph's entities are exactly the deduplicated
\* entities of the chunks whose call returned: each of those entities is in the
\* graph under its own name or under the name of the entity it was merged into.
C4_FailureIsLocal ==
    FailedChunks # {} =>
        /\ pc # "raised"
        /\ ExtractReturned =>
              /\ \A i \in FailedChunks :
                     \E k \in 1..Len(chunk_results) :
                         chunk_results[k] =
                             ChunkAnalysisResult(i - 1, format_page_range(chunks[i].pages),
                                                 <<>>, <<>>)
              /\ \A i \in SucceededChunks :
                     \E k \in 1..Len(chunk_results) : chunk_results[k] = ExpectedResult(i)
        /\ pc = "done" =>
              /\ graph.entities =
                     deduplicate_entities(
                         WithEntityIds(Concat([i \in 1..Len(chunks) |->
                             IF i \in SucceededChunks THEN LLMResponse(i - 1).entities
                             ELSE <<>>])),
                         similarity_threshold)
              /\ \A i \in SucceededChunks :
                     \A n \in 1..Len(LLMResponse(i - 1).entities) :
                         \E j \in 1..Len(all_entities) :
                             /\ all_entities[j].name = LLMResponse(i - 1).entities[n].name
                             /\ all_entities[j].type = LLMResponse(i - 1).entities[n].type
                             /\ owner[j] # 0
                             /\ all_entities[owner[j]].name \in MapKeys(graph.entities)

\* C4 witness: in parallel mode the graph was built after one chunk's call failed
\* and another chunk's call returned
C4_Witness ==
    /\ pc = "done"
    /\ InParallel
    /\ FailedChunks # {}
    /\ SucceededChunks # {}
    /\ graph.entities # <<>>

\* the same in sequential mode
C4_WitnessSequential ==
    /\ pc = "done"
    /\ ~parallel
    /\ FailedChunks # {}
    /\ SucceededChunks # {}
    /\ graph.entities # <<>>

\* C5: in parallel mode, whatever the order in which the tasks end, each slot of
\* results is assigned at most once and only the result of the chunk of its index,
\* and the list returned is in ascending chunk index.
C5_ParallelOrderAndSlots ==
    InParallel =>
        /\ \A i \in 1..Len(results) :
               /\ slot_writes[i] <= 1
               /\ results[i] # NoneObject =>
                      /\ slot_writes[i] = 1
                      /\ results[i].chunk_idx = i - 1
                      /\ results[i] = futures[i].result
        /\ ExtractReturned =>
               \A i, j \in 1..Len(chunk_results) :
                   i < j => chunk_results[i].chunk_idx < chunk_results[j].chunk_idx

\* C5 witness: the tasks ended out of chunk order and the list was returned
C5_Witness ==
    /\ InParallel
    /\ ExtractReturned
    /\ Len(chunk_results) >= 2
    /\ \E i, j \in 1..Len(completed) : i < j /\ completed[i] > completed[j]

\* C24: the number of capability calls in flight is never above max_workers in
\* parallel mode and never above one in sequential mode, where the call in flight
\* is that of the chunk the loop is at: every earlier chunk's call has returned or
\* failed (or the chunk was blank) and no later chunk's call was issued.
C24_CallsInFlightBounded ==
    /\ pc = "par_pool" => Cardinality(Calling) <= max_workers
    /\ pc = "seq_loop" =>
           /\ Cardinality(Calling) <= 1
           /\ \A i \in 1..Len(futures) :
                  /\ i <= collect_idx => futures[i].state \in {"queued", "done", "caught"}
                  /\ i <= collect_idx /\ futures[i].state = "queued" => IsBlank(chunks[i].text)
                  /\ i > collect_idx + 1 => futures[i].state = "queued"
    /\ pc \notin {"par_pool", "seq_loop"} => Calling = {}

\* C24 witness: with two workers and three chunks two calls are in flight and the
\* third task waits in the queue
C24_Witness ==
    /\ pc = "par_pool"
    /\ max_workers = 2
    /\ Cardinality(Calling) = 2
    /\ \E i \in 1..Len(futures) : futures[i].state = "queued"

\* C24 witness, sequential mode: the second chunk's call is in flight after the
\* first chunk's call has failed
C24_WitnessSequential ==
    /\ pc = "seq_loop"
    /\ Len(futures) >= 2
    /\ futures[1].state = "caught"
    /\ futures[2].state = "calling"

\* task i is over: process_chunk returned or raised
TaskOver(i) == futures[i].state \in {"done", "caught", "raised"}

\* every worker of the pool is inside a capability call that never returns
PoolExhausted == Calling \subseteq hung /\ Cardinality(Calling) = max_workers

\* C25: in parallel mode, when the capability calls of some chunks never return,
\* the task of every other chunk is eventually started and eventually over, unless
\* every worker of the pool is held by a call that never returns; with two workers
\* and one call that never returns, the tasks of all other chunks are over in the end.
C25_StuckCallDelaysOnlyItsWorker ==
    /\ <>[](pc \in {"par_pool", "aggregate"} =>
               \/ \A i \in 1..Len(futures) : i \notin hung => TaskOver(i)
               \/ PoolExhausted)
    /\ <>[]((pc \in {"par_pool", "aggregate"} /\ max_workers >= 2 /\ Cardinality(hung) = 1) =>
               \A i \in 1..Len(futures) : i \notin hung => TaskOver(i))

\* C25 witness: of three tasks on two workers the first is inside a call that
\* never returns and the two others are over, their calls having returned
C25_Witness ==
    /\ pc = "par_pool"
    /\ max_workers = 2
    /\ hung = {1}
    /\ Len(futures) = 3
    /\ futures[1].state = "calling"
    /\ futures[2].state \in {"done", "caught"}
    /\ futures[3].state \in {"done", "caught"}
    /\ futures[3].result.page_range # "empty"

\* C29 (as stated): for the same chunks and the same capability response or
\* failure per chunk both modes return the same list: what _extract_parallel
\* returned is what _extract_sequential returns for these chunks when the calls
\* that failed in the parallel run fail and the others return (here with a prompt
\* that can be built, so that no task raises).
C29_ModesReturnTheSame ==
    (ExtractReturned /\ InParallel /\ prompt_ok) =>
        chunk_results =
            extract_sequential(chunks, [i \in 1..Len(chunks) |-> i \notin FailedChunks], 1)

\* C15: when the credential is missing (not set, or empty), construction of the
\* pipeline fails: the run is before the constructor's return or ended in the
\* configuration error, and no step of process_document has been taken: no sort,
\* no chunk, no extraction task, no graph.
C15_MissingCredentialStopsConstruction ==
    (api_key = NONE \/ api_key = "") =>
        /\ pc \in {"construct", "config_error"}
        /\ sorted_items = <<>>
        /\ chunks = <<>>
        /\ futures = <<>>
        /\ completed = <<>>
        /\ graph = NoneObject

\* C15 witness: construction failed on an empty key although a document with
\* text was at hand
C15_Witness ==
    /\ pc = "config_error"
    /\ api_key = ""
    /\ text_items # <<>>

(***************************************************************************)
(* Claims on normalize_relations, align_entities, align_relations (under   *)
(* SpecGraph)                                                              *)
(***************************************************************************)
Normalized == pc \in {"normalized", "entities_aligned", "relations_aligned", "done"}
EntitiesAligned == pc \in {"entities_aligned", "relations_aligned", "done"}
RelationsAligned == pc \in {"relations_aligned", "done"}

\* C6: every relation normalize_relations returns, and so every relation of the
\* graph's raw relations, has a source_entity and a target_entity that are keys of
\* the entity map.
C6_EndpointsAreKeys ==
    /\ Normalized =>
           \A i \in 1..Len(normalized_relations) :
               /\ normalized_relations[i].source_entity \in MapKeys(deduplicated_entities)
               /\ normalized_relations[i].target_entity \in MapKeys(deduplicated_entities)
    /\ pc = "done" =>
           \A i \in 1..Len(graph.relations) :
               /\ graph.relations[i].source_entity \in MapKeys(graph.entities)
               /\ graph.relations[i].target_entity \in MapKeys(graph.entities)

\* C6 witness: of the raw relations one was dropped and one was kept with an
\* endpoint rewritten to a key
C6_Witness ==
    /\ pc = "done"
    /\ Len(graph.relations) < Len(all_relations)
    /\ \E i \in 1..Len(graph.relations) :
           \A j \in 1..Len(all_relations) :
               \/ all_relations[j].source_entity # graph.relations[i].source_entity
               \/ all_relations[j].target_entity # graph.relations[i].target_entity

\* the raw type of the entity stored under key k
RawTypeOf(k) == deduplicated_entities[MapIndex(deduplicated_entities, k)].value.type

\* C7: no aligned entity has core_type Other; an entity is in the aligned map
\* exactly when its raw type maps to one of the seven other core types, and it is
\* there under the name key it has in the raw map.
C7_NoOtherAligned ==
    EntitiesAligned =>
        /\ \A i \in 1..Len(aligned_entities) :
               /\ aligned_entities[i].value.core_type \in CoreEntityTypes \ {CORE_OTHER}
               /\ aligned_entities[i].value.name = aligned_entities[i].key
               /\ aligned_entities[i].value.core_type =
                      map_entity_type(RawTypeOf(aligned_entities[i].key))
        /\ MapKeys(aligned_entities) =
               {k \in MapKeys(deduplicated_entities) :
                    map_entity_type(RawTypeOf(k)) \in CoreEntityTypes \ {CORE_OTHER}}
        /\ Len(aligned_entities) = Cardinality(MapKeys(aligned_entities))

\* C7 witness: of the raw entities one was aligned and one, of a type that maps to
\* Other, was left out
C7_Witness ==
    /\ pc = "done"
    /\ aligned_entities # <<>>
    /\ \E k \in MapKeys(deduplicated_entities) :
           /\ map_entity_type(RawTypeOf(k)) = CORE_OTHER
           /\ k \notin MapKeys(aligned_entities)

\* C8: every aligned relation has a source_entity and a target_entity that are
\* keys of aligned_entities, and a normalized relation with an endpoint that is no
\* key of aligned_entities has no counterpart among the aligned relations.
C8_AlignedEndpoints ==
    RelationsAligned =>
        /\ \A i \in 1..Len(aligned_relations) :
               /\ aligned_relations[i].source_entity \in MapKeys(aligned_entities)
               /\ aligned_relations[i].target_entity \in MapKeys(aligned_entities)
        /\ Len(aligned_relations) =
               Len(SelectSeq(normalized_relations,
                             LAMBDA r : /\ r.source_entity \in MapKeys(aligned_entities)
                                        /\ r.target_entity \in MapKeys(aligned_entities)))

\* C8 witness: a normalized relation with an endpoint left out of aligned_entities
\* was dropped while another relation was aligned
C8_Witness ==
    /\ pc = "done"
    /\ aligned_relations # <<>>
    /\ \E i \in 1..Len(normalized_relations) :
           \/ normalized_relations[i].source_entity \notin MapKeys(aligned_entities)
           \/ normalized_relations[i].target_entity \notin MapKeys(aligned_entities)

(***************************************************************************)
(* Claims on the fate of single relations and entities (under SpecGraph)   *)
(***************************************************************************)
\* the name is a key of the deduplicated entity map or similar enough to one
Resolvable(name) ==
    \/ name \in MapKeys(deduplicated_entities)
    \/ \E k \in MapKeys(deduplicated_entities) :
           SimAtLeast(calculate_similarity(name, k), similarity_threshold)

\* the endpoint names of the raw relations that are not resolvable
UnresolvableNames ==
    {n \in {all_relations[j].source_entity : j \in 1..Len(all_relations)}
             \cup {all_relations[j].target_entity : j \in 1..Len(all_relations)} :
         ~Resolvable(n)}

\* the raw relations with two resolvable endpoints
ResolvableRelations ==
    SelectSeq(all_relations,
              LAMBDA r : Resolvable(r.source_entity) /\ Resolvable(r.target_entity))

\* C13: a raw relation with an endpoint name that is no key of the entity map and
\* not similar enough to any key yields no normalized and no aligned relation:
\* there are no more normalized relations than raw relations with two resolvable
\* endpoints, no normalized or aligned relation has such a name as an endpoint,
\* and the run goes on to the graph.
C13_UnresolvedRelationAbsent ==
    /\ Normalized =>
           /\ Len(normalized_relations) <= Len(ResolvableRelations)
           /\ \A i \in 1..Len(normalized_relations) :
                  /\ normalized_relations[i].source_entity \notin UnresolvableNames \cup {NONE}
                  /\ normalized_relations[i].target_entity \notin UnresolvableNames \cup {NONE}
    /\ RelationsAligned =>
           /\ Len(aligned_relations) <= Len(ResolvableRelations)
           /\ \A i \in 1..Len(aligned_relations) :
                  /\ aligned_relations[i].source_entity \notin UnresolvableNames \cup {NONE}
                  /\ aligned_relations[i].target_entity \notin UnresolvableNames \cup {NONE}
    /\ pc = "done" =>
           /\ graph.relations = normalized_relations
           /\ graph.aligned_relations = aligned_relations

\* C13 witness: of two raw relations the one to "Bob", a name that resolves to no
\* entity, is in neither list of the graph, the other one is in both
C13_Witness ==
    /\ pc = "done"
    /\ Len(all_relations) = 2
    /\ \E j \in 1..2 : all_relations[j].target_entity = "Bob"
    /\ "Bob" \in UnresolvableNames
    /\ Len(graph.relations) = 1
    /\ Len(graph.aligned_relations) = 1

(***************************************************************************)
(* Claims on entities of one name and two types (under SpecSameName)       *)
(***************************************************************************)
\* C14 (as stated): an extracted entity whose raw type maps to Other is, under its
\* canonical name, in the graph's raw entities with its own type, and that name is
\* absent from aligned_entities.
C14_OtherKeptRawNotAligned ==
    pc = "done" =>
        \A i \in 1..Len(all_entities) :
            map_entity_type(all_entities[i].type) = CORE_OTHER =>
                LET k == all_entities[owner[i]].name
                IN /\ k \in MapKeys(graph.entities)
                   /\ graph.entities[MapIndex(graph.entities, k)].value.type =
                          all_entities[i].type
                   /\ k \notin MapKeys(graph.aligned_entities)

(***************************************************************************)
(* Claims on KnowledgeGraphBuilder.build (under SpecBuild)                 *)
(***************************************************************************)
\* C16: in every graph build returns, the metadata counts total_entities,
\* total_relations, total_aligned_entities and total_aligned_relations are the
\* sizes of the graph's entities, relations, aligned_entities and
\* aligned_relations, whatever the caller's metadata held under those keys.
C16_MetadataCountsMatch ==
    pc \in {"build_done", "done"} =>
        /\ {"total_entities", "total_relations", "total_aligned_entities",
            "total_aligned_relations"} \subseteq MapKeys(graph.metadata)
        /\ MapGet(graph.metadata, "total_entities") = Len(graph.entities)
        /\ MapGet(graph.metadata, "total_relations") = Len(graph.relations)
        /\ MapGet(graph.metadata, "total_aligned_entities") = Len(graph.aligned_entities)
        /\ MapGet(graph.metadata, "total_aligned_relations") = Len(graph.aligned_relations)

\* C16 witness: the caller's metadata held counts that differ from the sizes of
\* the collections, and build has returned
C16_Witness ==
    /\ pc = "build_done"
    /\ build_call.metadata # NoneObject
    /\ "total_entities" \in MapKeys(build_call.metadata.value)
    /\ MapGet(build_call.metadata.value, "total_entities") # Len(build_call.entities)
    /\ MapGet(build_call.metadata.value, "total_aligned_relations")
           # Len(graph.aligned_relations)

\* deduplicate_entities has returned
Deduplicated ==
    pc \in {"dedup_done", "rededup_done", "normalized", "entities_aligned",
            "relations_aligned", "done"}

\* C18 (as stated): every candidate that matched no canonical entity of its type
\* is, in the map returned, the value of the key that is its name, and every raw
\* entity went into an entity that is a value of the map and has its type.
C18_FoundersKeepTheirKey ==
    Deduplicated =>
        \A i \in 1..Len(all_entities) :
            /\ owner[i] = i =>
                   \E k \in 1..Len(deduplicated_entities) :
                       /\ deduplicated_entities[k].key = all_entities[i].name
                       /\ deduplicated_entities[k].value.id = i
                       /\ deduplicated_entities[k].value.type = all_entities[i].type
            /\ \E k \in 1..Len(deduplicated_entities) :
                   /\ deduplicated_entities[k].value.id = owner[i]
                   /\ deduplicated_entities[k].value.type = all_entities[i].type

\* the resolution of a name as C19 states it: the name if it is a key, else the
\* first key in map order among the keys of greatest similarity that reach the
\* threshold, else NONE
StatedResolution(entity_name, entity_map, thr) ==
    LET keys == MapKeySeq(entity_map)
        sim(i) == calculate_similarity(entity_name, keys[i])
        qualifying == {i \in 1..Len(keys) : SimAtLeast(sim(i), thr)}
        best == {i \in qualifying : \A k \in qualifying : ~SimGreater(sim(k), sim(i))}
    IN IF entity_name \in MapKeys(entity_map) THEN entity_name
       ELSE IF qualifying = {} THEN NONE
       ELSE keys[CHOOSE i \in best : \A k \in best : i <= k]

\* the raw relations whose endpoints both have a stated resolution, with the
\* endpoints replaced by it
StatedNormalization ==
    LET resolved(r) ==
            [r EXCEPT !.source_entity = StatedResolution(r.source_entity, deduplicated_entities,
                                                         similarity_threshold),
                      !.target_entity = StatedResolution(r.target_entity, deduplicated_entities,
                                                         similarity_threshold)]
        all_resolved == [j \in 1..Len(all_relations) |-> resolved(all_relations[j])]
    IN SelectSeq(all_resolved, LAMBDA r : r.source_entity # NONE /\ r.target_entity # NONE)

\* C19 (as stated): an endpoint that is a key resolves to itself, any other
\* endpoint to the first key in map order among the keys, of any type, of greatest
\* similarity >= threshold, and to nothing if no key reaches the threshold; so
\* the normalized relations are the raw relations with two resolved endpoints,
\* carrying these keys.
C19_ResolutionAsStated ==
    Normalized => normalized_relations = StatedNormalization

\* C19 at a threshold above 0: the stated resolution is the one computed
C19_ResolutionAtPositiveThreshold ==
    (Normalized /\ similarity_threshold > 0) => normalized_relations = StatedNormalization

\* the raw relations both of whose endpoints _find_canonical_name resolves to a
\* canonical name, the empty string included, in input order, each with its
\* endpoints replaced by the canonical names and nothing else changed
BothEndpointsResolve ==
    LET canonical(n) == find_canonical_name(n, deduplicated_entities, similarity_threshold)
        replaced == [j \in 1..Len(all_relations) |->
                        [all_relations[j] EXCEPT
                            !.source_entity = canonical(all_relations[j].source_entity),
                            !.target_entity = canonical(all_relations[j].target_entity)]]
    IN SelectSeq(replaced, LAMBDA r : r.source_entity # NONE /\ r.target_entity # NONE)

\* C20 (as stated): normalize_relations returns exactly the raw relations both of
\* whose endpoints resolve to a canonical name (a canonical name that is the empty
\* string included), each once and in input order, with the endpoints replaced by
\* the canonical names and relation_type, description and confidence unchanged.
C20_OnlyUnresolvedDropped ==
    Normalized => normalized_relations = BothEndpointsResolve

\* the core type C21 states for a raw type: that of the equal key, else that of the
\* first key in dictionary order that is in the lower-cased, trimmed raw type or
\* holds it, else Other
StatedEntityType(raw_type) ==
    LET raw == Strip(Lower(raw_type))
        n == Len(ENTITY_TYPE_MAPPING)
        key(i) == ENTITY_TYPE_MAPPING[i][1]
        equal == {i \in 1..n : key(i) = raw}
        part == {i \in 1..n : IsSubstring(key(i), raw) \/ IsSubstring(raw, key(i))}
    IN IF equal # {} THEN ENTITY_TYPE_MAPPING[CHOOSE i \in equal : TRUE][2]
       ELSE IF part # {} THEN ENTITY_TYPE_MAPPING[CHOOSE i \in part : \A j \in part : i <= j][2]
       ELSE CORE_OTHER

\* C21: the core type given to a raw entity is the stated one (exact key, else first
\* key in dictionary order that is a part of the raw type or holds it, else Other):
\* the entity is aligned with that core type, or left out when it is Other; a raw
\* type that is a dictionary key gets that key's value; and every core type given
\* is one of the eight.
C21_EntityTypePriority ==
    EntitiesAligned =>
        \A k \in 1..Len(deduplicated_entities) :
            LET name == deduplicated_entities[k].key
                raw_type == deduplicated_entities[k].value.type
                stated == StatedEntityType(raw_type)
            IN /\ stated \in CoreEntityTypes
               /\ \A i \in 1..Len(ENTITY_TYPE_MAPPING) :
                      raw_type = ENTITY_TYPE_MAPPING[i][1] => stated = ENTITY_TYPE_MAPPING[i][2]
               /\ IF stated = CORE_OTHER THEN name \notin MapKeys(aligned_entities)
                  ELSE /\ name \in MapKeys(aligned_entities)
                       /\ aligned_entities[MapIndex(aligned_entities, name)].value.core_type = stated

\* C21 witness: a raw type that is a dictionary key and also a part of an earlier
\* key ("investment", inside "investment_firm") got the core type of its own key
C21_Witness ==
    /\ pc = "done"
    /\ Len(deduplicated_entities) = 1
    /\ deduplicated_entities[1].value.type = "investment"
    /\ Len(aligned_entities) = 1
    /\ aligned_entities[1].value.core_type = EVENT

\* the relation type, lower-cased, trimmed and with "_" for " ", equals no key of
\* RELATION_TYPE_MAPPING, holds none and is held by none
MatchesNoRelationKey(relation_type) ==
    LET raw == ReplaceSpaces(Strip(Lower(relation_type)))
    IN \A i \in 1..Len(RELATION_TYPE_MAPPING) :
           /\ RELATION_TYPE_MAPPING[i][1] # raw
           /\ ~IsSubstring(RELATION_TYPE_MAPPING[i][1], raw)
           /\ ~IsSubstring(raw, RELATION_TYPE_MAPPING[i][1])

\* the normalized relations whose endpoints are both keys of aligned_entities
WithAlignedEndpoints ==
    SelectSeq(normalized_relations,
              LAMBDA r : /\ r.source_entity \in MapKeys(aligned_entities)
                         /\ r.target_entity \in MapKeys(aligned_entities))

\* C22: the aligned relations are, one for one and in input order, the normalized
\* relations whose endpoints are both keys of aligned_entities, whatever their
\* relation type; one whose type matches no dictionary key has core type "other".
C22_OtherRelationsKept ==
    RelationsAligned =>
        /\ Len(aligned_relations) = Len(WithAlignedEndpoints)
        /\ \A i \in 1..Len(aligned_relations) :
               /\ aligned_relations[i].source_entity = WithAlignedEndpoints[i].source_entity
               /\ aligned_relations[i].target_entity = WithAlignedEndpoints[i].target_entity
               /\ aligned_relations[i].description = WithAlignedEndpoints[i].description
               /\ MatchesNoRelationKey(WithAlignedEndpoints[i].relation_type) =>
                      aligned_relations[i].core_relation_type = REL_OTHER

\* C22 witness: the graph holds an aligned relation of core type "other" that came
\* from a relation type matching no dictionary key
C22_Witness ==
    /\ pc = "done"
    /\ \E i \in 1..Len(aligned_relations) :
           /\ aligned_relations[i].core_relation_type = REL_OTHER
           /\ MatchesNoRelationKey(WithAlignedEndpoints[i].relation_type)

\* the structured fields of each core type
FieldsOf(core_type) ==
    CASE core_type = COMPANY ->
             {"legal_name", "founded_date", "stage", "industry", "location", "website"}
      [] core_type = PERSON -> {"education", "positions", "expertise"}
      [] core_type = TECHNOLOGY ->
             {"application_domain", "technical_characteristics", "maturity_level"}
      [] core_type = PRODUCT -> {"version", "features", "application_domain"}
      [] OTHER -> {}

\* C23: in every aligned entity each structured field outside the field list of
\* its core type has its default, whatever the attributes of the raw entity; an
\* entity of core type TagConcept, Event or Signal has every structured field at
\* its default; and a raw entity without attributes is aligned with every field at
\* its default.
C23_ForeignFieldsUnset ==
    EntitiesAligned =>
        \A i \in 1..Len(aligned_entities) :
            LET aligned == aligned_entities[i].value
                raw == deduplicated_entities[MapIndex(deduplicated_entities,
                                                      aligned_entities[i].key)].value
            IN /\ \A f \in (DOMAIN DefaultFields) \ FieldsOf(aligned.core_type) :
                      aligned.fields[f] = DefaultFields[f]
               /\ aligned.core_type \in {TAG_CONCEPT, EVENT, SIGNAL} =>
                      aligned.fields = DefaultFields
               /\ raw.attributes = <<>> => aligned.fields = DefaultFields

\* C23 witness: a Company whose raw entity carries attributes for the fields of
\* every core type has its own fields set and no positions and no features
C23_Witness ==
    /\ pc = "done"
    /\ Len(aligned_entities) = 1
    /\ aligned_entities[1].value.core_type = COMPANY
    /\ aligned_entities[1].value.fields.legal_name = "v1"
    /\ AttrGet(deduplicated_entities[1].value.attributes, "position") = "v8"
    /\ AttrGet(deduplicated_entities[1].value.attributes, "features") = "v14"
    /\ aligned_entities[1].value.fields.positions = <<>>
    /\ aligned_entities[1].value.fields.features = <<>>

\* the attribute names of the list are pairwise distinct
DistinctAttrNames(attributes) ==
    \A i, j \in 1..Len(attributes) : attributes[i].name = attributes[j].name => i = j

\* C28 (as stated): in a merge the canonical entity keeps its key, name and type
\* and every attribute it had, in place; each attribute appended has a name that
\* no attribute before it on the canonical entity has; so attribute names that
\* were pairwise distinct before the merge are pairwise distinct after it, also
\* when the candidate carries an attribute name twice.
C28_MergeKeepsAttributeNamesDistinct ==
    [][(pc = "dedup_loop" /\ dedup_idx' = dedup_idx + 1
          /\ owner'[dedup_order[dedup_idx + 1].id] # dedup_order[dedup_idx + 1].id) =>
             /\ Len(deduplicated_entities') = Len(deduplicated_entities)
             /\ \A k \in 1..Len(deduplicated_entities) :
                    LET before == deduplicated_entities[k].value
                        after == deduplicated_entities'[k].value
                    IN /\ deduplicated_entities'[k].key = deduplicated_entities[k].key
                       /\ after.name = before.name
                       /\ after.type = before.type
                       /\ Len(after.attributes) >= Len(before.attributes)
                       /\ SubSeq(after.attributes, 1, Len(before.attributes)) = before.attributes
                       /\ \A j \in (Len(before.attributes) + 1)..Len(after.attributes) :
                              \A m \in 1..(j - 1) :
                                  after.attributes[m].name # after.attributes[j].name
                       /\ DistinctAttrNames(before.attributes) =>
                              DistinctAttrNames(after.attributes)]_vars

\* C30 (as stated): every label of CoreRelationType.all_types(), given as a raw
\* relation type, is mapped to itself, and every core relation type given is one
\* of these labels.
C30_VocabularyMapsToItself ==
    RelationsAligned =>
        /\ Len(aligned_relations) = Len(WithAlignedEndpoints)
        /\ \A i \in 1..Len(aligned_relations) :
               /\ aligned_relations[i].core_relation_type \in Range(CoreRelationTypes)
               /\ WithAlignedEndpoints[i].relation_type \in Range(CoreRelationTypes) =>
                      aligned_relations[i].core_relation_type =
                          WithAlignedEndpoints[i].relation_type

\* C30 for every label but triggered_by
C30_OtherLabelsMapToThemselves ==
    RelationsAligned =>
        /\ Len(aligned_relations) = Len(WithAlignedEndpoints)
        /\ \A i \in 1..Len(aligned_relations) :
               /\ aligned_relations[i].core_relation_type \in Range(CoreRelationTypes)
               /\ WithAlignedEndpoints[i].relation_type
                      \in Range(CoreRelationTypes) \ {TRIGGERED_BY} =>
                          aligned_relations[i].core_relation_type =
                              WithAlignedEndpoints[i].relation_type

\* the names of a list of entities, in order
EntityNames(entities) == [i \in 1..Len(entities) |-> entities[i].name]

\* C26: the set of canonical names depends on the order of the input: at threshold
\* 0.5 the same-type list a, bc, abc (abc is similar to a and to bc, a is not
\* similar to bc) gives the canonical names a and bc, and its permutation abc, a, bc
\* gives the one canonical name abc.
C26_OrderDependent ==
    (Deduplicated /\ similarity_threshold = 50) =>
        /\ EntityNames(all_entities) = <<"a", "bc", "abc">> =>
               /\ MapKeys(deduplicated_entities) = {"a", "bc"}
               /\ MapKeys(deduplicate_entities(<<all_entities[3], all_entities[1],
                                                 all_entities[2]>>, similarity_threshold))
                      = {"abc"}
        /\ EntityNames(all_entities) = <<"abc", "a", "bc">> =>
               MapKeys(deduplicated_entities) = {"abc"}

\* C26 witness: the list abc, a, bc was deduplicated at threshold 0.5 into one
\* canonical entity, where the list a, bc, abc gives two
C26_Witness ==
    /\ pc = "dedup_done"
    /\ similarity_threshold = 50
    /\ EntityNames(all_entities) = <<"abc", "a", "bc">>
    /\ Len(deduplicated_entities) = 1
    /\ Len(deduplicate_entities(<<all_entities[2], all_entities[3], all_entities[1]>>,
                                similarity_threshold)) = 2

(***************************************************************************)
(* Specifications                                                          *)
(***************************************************************************)
GroupNext == GroupSort \/ GroupStep \/ GroupFinish

SpecGroup == GroupInit /\ [][GroupNext]_vars

DedupNext == DedupGroup \/ DedupStep \/ DedupReturn \/ DedupAgain

SpecDedup == DedupInit /\ [][DedupNext]_vars

\* deduplicate_entities on a candidate with two matches
SpecBestMatch == BestMatchInit /\ [][DedupNext]_vars

\* deduplicate_entities on entities with names equal up to letter case
SpecCase == CaseInit /\ [][DedupNext]_vars

\* deduplicate_entities on entities that all merge into one
SpecMerge == MergeInit /\ [][DedupNext]_vars

GraphNext ==
    DedupGroup \/ DedupStep \/ DedupReturn \/ Normalize \/ AlignEntities \/ AlignRelations
        \/ Build

\* steps 5 to 9 of process_document
SpecGraph == GraphInit /\ [][GraphNext]_vars

PipelineNext ==
    \/ Construct
    \/ GroupSort \/ GroupStep \/ GroupFinish
    \/ ExtractDispatch
    \/ \E i \in 1..Len(chunks) : TaskStart(i) \/ TaskReturn(i)
    \/ Collect \/ ParReturn
    \/ SeqStep \/ SeqReturn \/ SeqFinish
    \/ Aggregate
    \/ DedupGroup \/ DedupStep \/ DedupReturn
    \/ Normalize \/ AlignEntities \/ AlignRelations \/ Build

\* steps 5 to 9 of process_document on entities of one name and two types
SpecSameName == SameNameInit /\ [][GraphNext]_vars

\* steps 5 and 6 on endpoint names that are keys, near keys or far from every key
SpecResolve == ResolveInit /\ [][GraphNext]_vars

\* steps 5 and 6 on an entity whose name is the empty string
SpecEmptyName == EmptyNameInit /\ [][GraphNext]_vars

\* steps 5 to 9 on one entity of any raw type
SpecEntityType == EntityTypeInit /\ [][GraphNext]_vars

\* steps 5 to 9 on one entity with attributes for the fields of every core type
SpecFields == FieldsInit /\ [][GraphNext]_vars

\* steps 5 to 9 on one relation of any raw type
SpecRelationType == RelationTypeInit /\ [][GraphNext]_vars

\* KnowledgeGraphBuilder.build
SpecBuild == BuildInit /\ [][BuildCall]_vars

\* steps 2 and 3 of process_document in parallel mode
StuckNext ==
    \/ GroupSort \/ GroupStep \/ GroupFinish
    \/ ExtractDispatch
    \/ \E i \in 1..Len(chunks) : TaskStart(i) \/ TaskReturn(i)
    \/ Collect \/ ParReturn

\* the main thread runs on, every worker of the pool that is free takes the next
\* queued task, and every call that is not one of those that never return returns
SpecStuck ==
    /\ StuckInit
    /\ [][StuckNext]_vars
    /\ WF_vars(GroupSort \/ GroupStep \/ GroupFinish \/ ExtractDispatch)
    /\ \A i \in 1..MaxFragments : WF_vars(i <= Len(chunks) /\ TaskStart(i))
    /\ \A i \in 1..MaxFragments : WF_vars(i <= Len(chunks) /\ TaskReturn(i))

\* process_document
SpecPipeline == PipelineInit /\ [][PipelineNext]_vars

====
